---------------------------- MODULE Spec2Model ----------------------------
(***************************************************************************)
(* Verification model of the AcFella acoustic physics engine               *)
(* (src/acoustic_fella/core): RoomModeCalculator, AbsorptionCalculator,    *)
(* ReverberationAnalyzer and SchroederAnalyzer.                            *)
(*                                                                         *)
(* Numbers.  The code computes with IEEE doubles; the model computes with  *)
(* exact rationals, so a statement checked here is a statement about the   *)
(* real-number value of each expression of the code, not about its last    *)
(* bit.  TLC's integers are 32 bits wide, so products that do not fit are  *)
(* carried as arbitrary-precision naturals ("Big": little-endian sequences *)
(* of base-10000 digits, << >> being zero).  Square roots and logarithms   *)
(* are never evaluated: a frequency is carried as its square, a decay      *)
(* level as the energy ratio whose 10*log10 it is, and every comparison    *)
(* the code makes on them is made on those exact values.                   *)
(***************************************************************************)
EXTENDS Integers, Sequences, FiniteSets, TLC

(***************************************************************************)
(* State: one instance of each component and the outcome of the last call  *)
(* made on it.  The components share nothing.                              *)
(***************************************************************************)
VARIABLES rmc, rmcRet,    \* RoomModeCalculator
          abc, abcRet,    \* AbsorptionCalculator
          ra, raRet,      \* ReverberationAnalyzer
          sa, saArgs, saRet,  \* SchroederAnalyzer and its constructor's arguments
          pacRet,         \* PorousAbsorberCalculator (it has no fields)
          mlsRet,   \* MLSGenerator (it keeps only the polynomial table)
          pm, disk, pmRet    \* ProjectManager._projects, data/projects.json, the last call's outcome

rmcVars == <<rmc, rmcRet>>
abcVars == <<abc, abcRet>>
raVars == <<ra, raRet>>
saVars == <<sa, saArgs, saRet>>
pacVars == <<pacRet>>
mlsVars == <<mlsRet>>
pmVars == <<pm, disk, pmRet>>
vars == <<rmcVars, abcVars, raVars, saVars, pacVars, mlsVars, pmVars>>
notRmc == <<abcVars, raVars, saVars, pacVars, mlsVars, pmVars>>
notAbc == <<rmcVars, raVars, saVars, pacVars, mlsVars, pmVars>>
notRa == <<rmcVars, abcVars, saVars, pacVars, mlsVars, pmVars>>
notSa == <<rmcVars, abcVars, raVars, pacVars, mlsVars, pmVars>>
notPac == <<rmcVars, abcVars, raVars, saVars, mlsVars, pmVars>>
notMls == <<rmcVars, abcVars, raVars, saVars, pacVars, pmVars>>
notPm == <<rmcVars, abcVars, raVars, saVars, pacVars, mlsVars>>

(***************************************************************************)
(* Arbitrary-precision naturals                                            *)
(***************************************************************************)
BigBase == 100 * 100

RECURSIVE Big(_)
Big(k) == IF k = 0 THEN << >> ELSE <<k % BigBase>> \o Big(k \div BigBase)

RECURSIVE BigAddC(_, _, _)
BigAddC(a, b, carry) ==
    IF a = << >> /\ b = << >>
    THEN (IF carry = 0 THEN << >> ELSE <<carry>>)
    ELSE LET x == IF a = << >> THEN 0 ELSE Head(a)
             y == IF b = << >> THEN 0 ELSE Head(b)
             s == x + y + carry
         IN  <<s % BigBase>> \o
             BigAddC(IF a = << >> THEN a ELSE Tail(a),
                     IF b = << >> THEN b ELSE Tail(b), s \div BigBase)

BigAdd(a, b) == BigAddC(a, b, 0)

\* a * k for a machine integer 0 <= k <= SmallFactorMax, so that a digit
\* times k plus a carry stays below 2^31.
SmallFactorMax == 200 * 1000

RECURSIVE BigMulDigit(_, _, _)
BigMulDigit(a, k, carry) ==
    IF k = 0 THEN << >>
    ELSE IF a = << >> THEN Big(carry)
    ELSE LET s == Head(a) * k + carry
         IN  <<s % BigBase>> \o BigMulDigit(Tail(a), k, s \div BigBase)

\* a * b; b without leading zero digits, so the product by Tail(b) is not zero.
RECURSIVE BigMul(_, _)
BigMul(a, b) ==
    IF a = << >> \/ b = << >> THEN << >>
    ELSE IF Tail(b) = << >> THEN BigMulDigit(a, Head(b), 0)
    ELSE BigAdd(BigMulDigit(a, Head(b), 0), <<0>> \o BigMul(a, Tail(b)))

\* a * k for any machine integer k >= 0.
BigMulInt(a, k) ==
    IF k <= SmallFactorMax THEN BigMulDigit(a, k, 0) ELSE BigMul(a, Big(k))

\* The product of a sequence of machine integers (each >= 0).
RECURSIVE BigProd(_)
BigProd(fs) ==
    IF fs = << >> THEN <<1>>
    ELSE BigMulInt(BigProd(SubSeq(fs, 1, Len(fs) - 1)), fs[Len(fs)])

\* -1, 0, 1 as a < b, a = b, a > b (both without leading zero digits).
RECURSIVE BigCmpFrom(_, _, _)
BigCmpFrom(a, b, i) ==
    IF i = 0 THEN 0
    ELSE IF a[i] < b[i] THEN -1
    ELSE IF a[i] > b[i] THEN 1
    ELSE BigCmpFrom(a, b, i - 1)

BigCmp(a, b) ==
    IF Len(a) < Len(b) THEN -1
    ELSE IF Len(a) > Len(b) THEN 1
    ELSE BigCmpFrom(a, b, Len(a))

BigLeq(a, b) == BigCmp(a, b) <= 0
BigLt(a, b) == BigCmp(a, b) < 0

(***************************************************************************)
(* RoomModeCalculator (core/room_modes.py)                                 *)
(*                                                                         *)
(* Dimensions are carried in tenths of the room's unit (40 is 4.0 m or     *)
(* 4.0 ft), temperatures in whole degrees Celsius, frequencies given by    *)
(* the caller in whole Hz.                                                 *)
(***************************************************************************)
\* rmc: the RoomModeCalculator instance; rmcRet: what the last call on it
\* returned or raised.

\* Largest max_mode_order a call is made with.
MaxOrder == 2

\* (length, width, height) the constructor is called with, in tenths.
RoomDims == {<<40, 30, 25>>, <<30, 30, 30>>, <<0, 30, 25>>, <<40, 30, 0>>,
             <<-40, 30, 25>>}
Temperatures == {20, 0}
MaxFrequencies == {-1, 60, 100, 300}
ModeOrders == 0 .. MaxOrder

\* self.speed_of_sound as the fraction n/d in lowest terms of 2:
\* 331.3 + 0.606*T = (165650 + 303*T)/500, times 3.281 in feet.
SpeedOfSound(use_metric, temperature_c) ==
    IF use_metric
    THEN [n |-> <<165650 + 303 * temperature_c>>, d |-> <<500>>]
    ELSE [n |-> <<165650 + 303 * temperature_c, 3281>>, d |-> <<500, 1000>>]

\* __init__: stores its arguments as given; it checks none of them.
RoomModeCalculatorInit(length, width, height, use_metric, temperature_c) ==
    [length |-> length, width |-> width, height |-> height,
     use_metric |-> use_metric, temperature_c |-> temperature_c,
     speed_of_sound |-> SpeedOfSound(use_metric, temperature_c),
     modes |-> << >>]

\* The properties volume and surface_area, in thousandths and hundredths of the unit.
Volume(c) == c.length * c.width * c.height
SurfaceArea(c) == 2 * (c.length * c.width + c.length * c.height + c.width * c.height)

Sq(x) == x * x

\* (p/L)^2 + (q/W)^2 + (r/H)^2 over the common denominator (L*W*H)^2, L =
\* length/10 and so on: the numerator, in units of 1/100 (a machine integer
\* for the dimensions and orders of this model).
ModeTerm(c, p, q, r) ==
    Sq(p) * Sq(c.width) * Sq(c.height) + Sq(q) * Sq(c.length) * Sq(c.height)
        + Sq(r) * Sq(c.length) * Sq(c.width)

\* calculate_mode_frequency squared, as numerator over FrequencySqDen(c):
\* f^2 = (c/2)^2 * ((p/L)^2 + (q/W)^2 + (r/H)^2).
FrequencySqNum(c, p, q, r) ==
    BigProd(c.speed_of_sound.n \o c.speed_of_sound.n \o <<100, ModeTerm(c, p, q, r)>>)

FrequencySqDen(c) ==
    BigProd(<<4>> \o c.speed_of_sound.d \o c.speed_of_sound.d
            \o <<Sq(c.length), Sq(c.width), Sq(c.height)>>)

\* freq <= max_frequency, for a frequency given by its squared numerator.
FreqLeq(c, fnum, max_frequency) ==
    /\ max_frequency >= 0
    /\ BigLeq(fnum, BigMul(Big(Sq(max_frequency)), FrequencySqDen(c)))

Bool2Int(b) == IF b THEN 1 ELSE 0

GetModeTypeCountNonNegative(p, q, r) ==
    LET active_dims == Bool2Int(p >= 0) + Bool2Int(q >= 0) + Bool2Int(r >= 0)
    IN  IF active_dims = 1 THEN "axial"
        ELSE IF active_dims = 2 THEN "tangential"
        ELSE "oblique"

\* get_mode_type
GetModeType(p, q, r) ==
    LET active_dims == Bool2Int(p > 0) + Bool2Int(q > 0) + Bool2Int(r > 0)
    IN  IF active_dims = 1 THEN "axial"
        ELSE IF active_dims = 2 THEN "tangential"
        ELSE "oblique"

\* The RoomMode of (p,q,r).  frequency is the squared frequency's numerator
\* over FrequencySqDen(c); wavelength = speed/freq is carried as its square,
\* speed^2/freq^2 = 4 / ((p/L)^2 + (q/W)^2 + (r/H)^2), the product of the
\* factors n over the product of the factors d.
RoomMode(c, p, q, r) ==
    [frequency |-> FrequencySqNum(c, p, q, r), p |-> p, q |-> q, r |-> r,
     mode_type |-> GetModeType(p, q, r),
     wavelength |-> [n |-> <<Sq(c.length), Sq(c.width), Sq(c.height)>>,
                     d |-> <<25, ModeTerm(c, p, q, r)>>]]

\* The (p,q,r) of the three nested range(n) loops, in the loops' order.
LoopTriples(n) ==
    IF n <= 0 THEN << >>
    ELSE [i \in 1 .. n * n * n |->
             <<(i - 1) \div (n * n), ((i - 1) \div n) % n, (i - 1) % n>>]

\* list.sort(key=frequency): a stable sort, here by insertion.
RECURSIVE InsertByFrequency(_, _)
InsertByFrequency(sorted, m) ==
    IF sorted = << >> THEN <<m>>
    ELSE IF BigLeq(sorted[Len(sorted)].frequency, m.frequency)
    THEN Append(sorted, m)
    ELSE Append(InsertByFrequency(SubSeq(sorted, 1, Len(sorted) - 1), m),
                sorted[Len(sorted)])

RECURSIVE SortByFrequency(_)
SortByFrequency(ms) ==
    IF ms = << >> THEN << >>
    ELSE InsertByFrequency(SortByFrequency(SubSeq(ms, 1, Len(ms) - 1)), ms[Len(ms)])

ModeLoopRangeMissingLast(max_mode_order) == LoopTriples(max_mode_order)

\* for p in range(max_mode_order + 1): for q ...: for r ...
ModeLoopRange(max_mode_order) == LoopTriples(max_mode_order + 1)

\* calculate_all_modes: [raised, modes].  A zero dimension makes the first
\* calculate_mode_frequency call (the triple after the skipped (0,0,0))
\* divide by zero; the assignment to self._modes is then not reached.
CalculateAllModes(c, max_frequency, max_mode_order) ==
    LET triples == SelectSeq(ModeLoopRange(max_mode_order),
                             LAMBDA t : t # <<0, 0, 0>>)
    IN  IF triples # << >> /\ (c.length = 0 \/ c.width = 0 \/ c.height = 0)
        THEN [raised |-> "ZeroDivisionError", modes |-> << >>]
        ELSE LET limit == BigMul(Big(Sq(max_frequency)), FrequencySqDen(c))
                 all == [i \in 1 .. Len(triples) |->
                            RoomMode(c, triples[i][1], triples[i][2], triples[i][3])]
                 kept == SelectSeq(all, LAMBDA m : /\ max_frequency >= 0
                                                   /\ BigLeq(m.frequency, limit))
             IN  [raised |-> "none", modes |-> SortByFrequency(kept)]

\* rmc = RoomModeCalculator(length, width, height, use_metric, temperature_c)
NewRoomModeCalculator ==
    \E dims \in RoomDims, use_metric \in BOOLEAN, temperature_c \in Temperatures :
        /\ rmc' = RoomModeCalculatorInit(dims[1], dims[2], dims[3],
                                         use_metric, temperature_c)
        /\ rmcRet' = [op |-> "__init__"]
        /\ UNCHANGED notRmc

\* rmc.calculate_all_modes(max_frequency, max_mode_order)
CallCalculateAllModes ==
    \E max_frequency \in MaxFrequencies, max_mode_order \in ModeOrders :
        LET res == CalculateAllModes(rmc, max_frequency, max_mode_order)
        IN  /\ rmc' = IF res.raised = "none"
                      THEN [rmc EXCEPT !.modes = res.modes] ELSE rmc
            /\ rmcRet' = [op |-> "calculate_all_modes",
                          max_frequency |-> max_frequency,
                          max_mode_order |-> max_mode_order,
                          raised |-> res.raised, modes |-> res.modes]
            /\ UNCHANGED notRmc

\* rmc.volume and rmc.surface_area
CallVolume ==
    /\ rmcRet' = [op |-> "volume", value |-> Volume(rmc),
                  surface_area |-> SurfaceArea(rmc)]
    /\ UNCHANGED <<rmc, notRmc>>

RmcInit ==
    /\ \E dims \in RoomDims, use_metric \in BOOLEAN, temperature_c \in Temperatures :
           rmc = RoomModeCalculatorInit(dims[1], dims[2], dims[3],
                                        use_metric, temperature_c)
    /\ rmcRet = [op |-> "__init__"]

RmcNext == NewRoomModeCalculator \/ CallCalculateAllModes \/ CallVolume

\* No RoomModeCalculator is in use.
RmcIdle == rmc = [op |-> "idle"] /\ rmcRet = [op |-> "idle"]

(***************************************************************************)
(* RoomModeCalculator: the queries on the cached mode list                 *)
(*                                                                         *)
(* A query returns [raised, self, ret]: the exception it raised or "none", *)
(* the instance as the call leaves it, and the value returned.  A          *)
(* frequency bound given to a query is [n, d, sixths]: (n/d) * 2^(sixths/6)*)
(* Hz, sixths = 0 for a number of the caller, -1 and +1 for the lower and  *)
(* upper edge of a third-octave band.                                      *)
(***************************************************************************)
\* The defaults of calculate_all_modes(max_frequency=300.0, max_mode_order=10).
DEFAULT_MAX_FREQUENCY == 300
DEFAULT_MAX_MODE_ORDER == 10

\* self.calculate_all_modes(max_frequency, max_mode_order) as a call made on
\* self: the list is stored in self._modes unless the call raised.
StoreAllModes(self, max_frequency, max_mode_order) ==
    LET res == CalculateAllModes(self, max_frequency, max_mode_order)
    IN  [raised |-> res.raised,
         self |-> IF res.raised = "none" THEN [self EXCEPT !.modes = res.modes]
                  ELSE self]

\* if not self._modes: self.calculate_all_modes(max_frequency)
EnsureModes(self, max_frequency) ==
    IF self.modes = << >>
    THEN StoreAllModes(self, max_frequency, DEFAULT_MAX_MODE_ORDER)
    ELSE [raised |-> "none", self |-> self]

\* get_axial_modes(max_frequency)
GetAxialModes(self, max_frequency) ==
    LET e == EnsureModes(self, max_frequency)
    IN  [raised |-> e.raised, self |-> e.self,
         ret |-> IF e.raised # "none" THEN << >>
                 ELSE SelectSeq(e.self.modes, LAMBDA m : m.mode_type = "axial")]

ExactBound(n) == [n |-> n, d |-> 1, sixths |-> 0]
LowerEdge(center) == [n |-> center.n, d |-> center.d, sixths |-> -1]
UpperEdge(center) == [n |-> center.n, d |-> center.d, sixths |-> 1]

BigCube(x) == BigMul(x, BigMul(x, x))

\* x^3 <= 2 * y^3 for naturals x, y: decided by 1.25992 < 2^(1/3) < 1.25993
\* where that suffices, by the cubes otherwise.
CubeLeqTwice(x, y) ==
    IF BigLeq(BigMulInt(x, 100000), BigMulInt(y, 125992)) THEN TRUE
    ELSE IF BigLeq(BigMulInt(y, 125993), BigMulInt(x, 100000)) THEN FALSE
    ELSE BigLeq(BigCube(x), BigMulInt(BigCube(y), 2))

\* Both sides of "frequency versus bound" squared and cleared of
\* denominators: f^2 = fnum/den against (n/d)^2.
FreqSide(bound, fnum) == BigMulInt(BigMulInt(fnum, bound.d), bound.d)
BoundSide(bound, den) == BigMulInt(BigMulInt(den, bound.n), bound.n)

\* low_freq <= m.frequency, for a bound with sixths in {0, -1}.
BoundLeqFreq(bound, fnum, den) ==
    IF bound.n <= 0 THEN TRUE
    ELSE IF bound.sixths = 0 THEN BigLeq(BoundSide(bound, den), FreqSide(bound, fnum))
    ELSE CubeLeqTwice(BoundSide(bound, den), FreqSide(bound, fnum))

\* m.frequency <= high_freq, for a bound with sixths in {0, 1}.
FreqLeqBound(bound, fnum, den) ==
    IF bound.n < 0 THEN FALSE
    ELSE IF bound.sixths = 0 THEN BigLeq(FreqSide(bound, fnum), BoundSide(bound, den))
    ELSE CubeLeqTwice(FreqSide(bound, fnum), BoundSide(bound, den))

\* max(high_freq, 300.0), for a whole number of the caller or a band edge
\* (the edges of the Bonello bands are all below 300 Hz).
BandCeiling(high_freq) ==
    IF high_freq.sixths = 0 /\ high_freq.n > DEFAULT_MAX_FREQUENCY THEN high_freq.n
    ELSE DEFAULT_MAX_FREQUENCY

\* [m for m in self._modes if low_freq <= m.frequency <= high_freq]
ModesBetween(self, low_freq, high_freq) ==
    LET den == FrequencySqDen(self)
    IN  SelectSeq(self.modes,
                  LAMBDA m : /\ BoundLeqFreq(low_freq, m.frequency, den)
                             /\ FreqLeqBound(high_freq, m.frequency, den))

\* get_modes_in_band(low_freq, high_freq)
GetModesInBand(self, low_freq, high_freq) ==
    LET e == EnsureModes(self, BandCeiling(high_freq))
    IN  [raised |-> e.raised, self |-> e.self,
         ret |-> IF e.raised # "none" THEN << >>
                 ELSE ModesBetween(e.self, low_freq, high_freq)]

\* band_centers = [20, 25, 31.5, 40, 50, 63, 80, 100, 125, 160, 200]
BAND_CENTERS ==
    <<[n |-> 20, d |-> 1], [n |-> 25, d |-> 1], [n |-> 63, d |-> 2],
      [n |-> 40, d |-> 1], [n |-> 50, d |-> 1], [n |-> 63, d |-> 1],
      [n |-> 80, d |-> 1], [n |-> 100, d |-> 1], [n |-> 125, d |-> 1],
      [n |-> 160, d |-> 1], [n |-> 200, d |-> 1]>>

ModeString(m) == <<m.p, m.q, m.r>>

\* The value a local variable holds once assigned: the one element of a
\* singleton set.
Only(S) == CHOOSE x \in S : TRUE

BonelloFailsOnAnyChange(count, previous_count) == count # previous_count

\* if count < previous_count and previous_count > 0
BonelloFails(count, previous_count) == count < previous_count /\ previous_count > 0

\* The loop of bonello_analysis from band k on; st is the loop's state.
RECURSIVE BonelloLoop(_, _, _)
BonelloLoop(st, k, max_frequency) ==
    IF k > Len(BAND_CENTERS) \/ st.raised # "none" THEN st
    ELSE LET center == BAND_CENTERS[k]
         IN  IF center.n > max_frequency * center.d THEN st          \* break
             ELSE Only({ Only({ BonelloLoop(next, k + 1, max_frequency) :
                   next \in {[raised |-> g.raised, self |-> g.self,
                              previous_count |-> Len(g.ret),
                              passes_criterion |->
                                  st.passes_criterion
                                  /\ ~BonelloFails(Len(g.ret), st.previous_count),
                              problem_bands |->
                                  IF BonelloFails(Len(g.ret), st.previous_count)
                                  THEN Append(st.problem_bands, center)
                                  ELSE st.problem_bands,
                              band_analysis |-> Append(st.band_analysis,
                                  [center_frequency |-> center,
                                   mode_count |-> Len(g.ret),
                                   modes |-> [i \in 1 .. Len(g.ret) |->
                                                 ModeString(g.ret[i])],
                                   passes |-> Len(g.ret) >= st.previous_count
                                              \/ st.previous_count = 0])]} }) :
                   g \in {GetModesInBand(st.self, LowerEdge(center),
                                         UpperEdge(center))} })

BonelloAnalysisDroppingModes(self, max_frequency) ==
    Only({ Only({ [raised |-> st.raised, self |-> [st.self EXCEPT !.modes = << >>],
                   ret |-> IF st.raised # "none" THEN << >>
                           ELSE [passes_bonello |-> st.passes_criterion,
                                 band_analysis |-> st.band_analysis,
                                 problem_bands |-> st.problem_bands]] :
                  st \in {BonelloLoop([raised |-> e.raised, self |-> e.self,
                                       previous_count |-> 0,
                                       passes_criterion |-> TRUE,
                                       problem_bands |-> << >>,
                                       band_analysis |-> << >>],
                                      1, max_frequency)} }) :
           e \in {EnsureModes(self, max_frequency)} })

\* bonello_analysis(max_frequency).  The band edges rounded for display and
\* the recommendation text are not carried.
BonelloAnalysis(self, max_frequency) ==
    Only({ Only({ [raised |-> st.raised, self |-> st.self,
                   ret |-> IF st.raised # "none" THEN << >>
                           ELSE [passes_bonello |-> st.passes_criterion,
                                 band_analysis |-> st.band_analysis,
                                 problem_bands |-> st.problem_bands]] :
                  st \in {BonelloLoop([raised |-> e.raised, self |-> e.self,
                                       previous_count |-> 0,
                                       passes_criterion |-> TRUE,
                                       problem_bands |-> << >>,
                                       band_analysis |-> << >>],
                                      1, max_frequency)} }) :
           e \in {EnsureModes(self, max_frequency)} })

\* a - b for a >= b.
RECURSIVE BigSubB(_, _, _)
BigSubB(a, b, borrow) ==
    IF a = << >> THEN << >>
    ELSE LET y == IF b = << >> THEN 0 ELSE Head(b)
             d == Head(a) - y - borrow
         IN  <<IF d < 0 THEN d + BigBase ELSE d>> \o
             BigSubB(Tail(a), IF b = << >> THEN b ELSE Tail(b),
                     IF d < 0 THEN 1 ELSE 0)

RECURSIVE BigTrim(_)
BigTrim(a) ==
    IF a = << >> THEN a
    ELSE IF a[Len(a)] = 0 THEN BigTrim(SubSeq(a, 1, Len(a) - 1))
    ELSE a

BigSub(a, b) == BigTrim(BigSubB(a, b, 0))

\* frequencies[j] - frequencies[i] <= 5 for f_i^2 = fi/den, f_j^2 = fj/den:
\* f_j <= f_i + 5 iff fj - fi - 25*den <= 10*sqrt(fi*den).
Within5Hz(fi, fj, den) ==
    LET r == BigAdd(fi, BigMulInt(den, 25))
    IN  IF BigLeq(fj, r) THEN TRUE
        ELSE LET x == BigSub(fj, r)
             IN  BigLeq(BigMul(x, x), BigMulInt(BigMul(den, fi), 100))

\* The inner while loop: the first index j (from j on) that is past the list
\* or more than 5 Hz above frequencies[i].
RECURSIVE ClusterEnd(_, _, _, _)
ClusterEnd(frequencies, i, j, den) ==
    IF j <= Len(frequencies) /\ Within5Hz(frequencies[i], frequencies[j], den)
    THEN ClusterEnd(frequencies, i, j + 1, den)
    ELSE j

\* The outer while loop from index i on (indices from 1): the clusters
\* appended.  center = np.mean(cluster) is carried as the list it is the
\* mean of.
RECURSIVE ClustersFrom(_, _, _)
ClustersFrom(frequencies, i, den) ==
    IF i > Len(frequencies) THEN << >>
    ELSE LET j == ClusterEnd(frequencies, i, i + 1, den)
             cluster == SubSeq(frequencies, i, j - 1)
         IN  (IF Len(cluster) > 1
              THEN <<[frequencies |-> cluster, center |-> [mean_of |-> cluster],
                      count |-> Len(cluster)]>>
              ELSE << >>)
             \o ClustersFrom(frequencies, IF j > i + 1 THEN j ELSE i + 1, den)

\* The count from which a cluster's centre is listed in problem_frequencies.
ProblemClusterMinCount == 3

\* The frequencies of a mode list, in its order.
FrequenciesOf(modes) == [i \in 1 .. Len(modes) |-> modes[i].frequency] \o << >>

\* problem_frequencies: the centres of the clusters listed.
ProblemFrequencies(clusters) ==
    LET listed == SelectSeq(clusters, LAMBDA c : c.count >= ProblemClusterMinCount)
    IN  [k \in 1 .. Len(listed) |-> listed[k].center]

\* analyze_mode_spacing().  The float statistics of the spacings (average,
\* min, max, std) are not carried.
AnalyzeModeSpacing(self) ==
    Only({ IF e.raised # "none"
           THEN [raised |-> e.raised, self |-> e.self, ret |-> << >>]
           ELSE IF Len(e.self.modes) < 2
           THEN [raised |-> "none", self |-> e.self,
                 ret |-> [error |-> "Not enough modes to analyze"]]
           ELSE Only({ [raised |-> "none", self |-> e.self,
                        ret |-> [total_modes |-> Len(e.self.modes),
                                 clusters |-> clusters,
                                 problem_frequencies |-> ProblemFrequencies(clusters)]] :
                       clusters \in {ClustersFrom(FrequenciesOf(e.self.modes), 1,
                                                  FrequencySqDen(e.self))} }) :
           e \in {EnsureModes(self, DEFAULT_MAX_FREQUENCY)} })

\* bass_notes, frequencies in tenths of a Hz, in the dict's order.
BASS_NOTES ==
    <<[note |-> "E1", tenths |-> 412], [note |-> "F1", tenths |-> 437],
      [note |-> "G1", tenths |-> 490], [note |-> "A1", tenths |-> 550],
      [note |-> "B1", tenths |-> 617], [note |-> "C2", tenths |-> 654],
      [note |-> "D2", tenths |-> 734], [note |-> "E2", tenths |-> 824],
      [note |-> "F2", tenths |-> 873], [note |-> "G2", tenths |-> 980],
      [note |-> "A2", tenths |-> 1100], [note |-> "B2", tenths |-> 1235]>>

\* abs(mode.frequency - freq) < 3: (t - 30)/10 < f < (t + 30)/10.
NearNote(fnum, den, tenths) ==
    /\ BigLt(BigMulInt(BigMulInt(den, tenths - 30), tenths - 30), BigMulInt(fnum, 100))
    /\ BigLt(BigMulInt(fnum, 100), BigMulInt(BigMulInt(den, tenths + 30), tenths + 30))

NoteCheckedForEveryMode(m) == TRUE

\* if mode.mode_type == ModeType.AXIAL
NoteChecked(m) == m.mode_type = "axial"

\* The entries the loop over self._modes appends, from mode i on.
RECURSIVE NoteProblemsFrom(_, _, _)
NoteProblemsFrom(modes, i, den) ==
    IF i > Len(modes) THEN << >>
    ELSE LET m == modes[i]
             near == IF NoteChecked(m)
                     THEN SelectSeq(BASS_NOTES,
                                    LAMBDA b : NearNote(m.frequency, den, b.tenths))
                     ELSE << >>
         IN  [k \in 1 .. Len(near) |->
                 [frequency |-> m.frequency, mode |-> ModeString(m),
                  type |-> "axial_near_note", note |-> near[k].note,
                  severity |-> "high"]]
             \o NoteProblemsFrom(modes, i + 1, den)

\* The cluster entries appended for an analysis result.
ClusterProblems(analysis) ==
    LET clusters == IF "clusters" \in DOMAIN analysis
                    THEN SelectSeq(analysis.clusters, LAMBDA c : c.count >= 2)
                    ELSE << >>
    IN  [k \in 1 .. Len(clusters) |->
            [frequency |-> clusters[k].center,
             modes |-> clusters[k].frequencies,
             type |-> "cluster",
             severity |-> IF clusters[k].count >= 3 THEN "high" ELSE "medium"]]

\* get_problematic_frequencies().  The recommendation texts are not carried.
GetProblematicFrequencies(self) ==
    Only({ IF e.raised # "none"
           THEN [raised |-> e.raised, self |-> e.self, ret |-> << >>]
           ELSE Only({ IF analysis.raised # "none"
                       THEN [raised |-> analysis.raised, self |-> analysis.self,
                             ret |-> << >>]
                       ELSE [raised |-> "none", self |-> analysis.self,
                             ret |-> NoteProblemsFrom(e.self.modes, 1,
                                                      FrequencySqDen(e.self))
                                     \o ClusterProblems(analysis.ret)] :
                       analysis \in {AnalyzeModeSpacing(e.self)} }) :
           e \in {EnsureModes(self, DEFAULT_MAX_FREQUENCY)} })

\* The rooms, ceilings and bands the queries are called with.
QueryRooms == {<<48, 14, 5>>, <<20, 20, 5>>, <<6, 4, 4>>, <<0, 14, 5>>}
QueryCeilings == {100, DEFAULT_MAX_FREQUENCY}
QueryOrders == {MaxOrder, DEFAULT_MAX_MODE_ORDER}
BonelloCeilings == {63, 100, 200}
AxialCeilings == {100, DEFAULT_MAX_FREQUENCY}
ModeBands == {<<0, 100>>, <<100, 200>>, <<100, 400>>}

\* RoomModeCalculator(length, width, height, use_metric=True), dimensions in
\* tenths of a metre, at 20 degrees C.
NewQueriedRoom ==
    \E dims \in QueryRooms :
        /\ rmc' = RoomModeCalculatorInit(dims[1], dims[2], dims[3], TRUE, 20)
        /\ rmcRet' = [op |-> "__init__"]
        /\ UNCHANGED notRmc

\* rmc.calculate_all_modes(max_frequency, max_mode_order) ahead of a query
CallCalculateAllModesFirst ==
    \E max_frequency \in QueryCeilings, max_mode_order \in QueryOrders :
        \E res \in {StoreAllModes(rmc, max_frequency, max_mode_order)} :
            /\ rmc' = res.self
            /\ rmcRet' = [op |-> "calculate_all_modes",
                          max_frequency |-> max_frequency,
                          max_mode_order |-> max_mode_order,
                          raised |-> res.raised]
            /\ UNCHANGED notRmc

\* rmc.get_axial_modes(max_frequency)
CallGetAxialModes ==
    \E max_frequency \in AxialCeilings :
        \E res \in {GetAxialModes(rmc, max_frequency)} :
            /\ rmc' = res.self
            /\ rmcRet' = [op |-> "get_axial_modes", max_frequency |-> max_frequency,
                          raised |-> res.raised, ret |-> res.ret]
            /\ UNCHANGED notRmc

\* rmc.get_modes_in_band(low_freq, high_freq)
CallGetModesInBand ==
    \E band \in ModeBands :
        \E res \in {GetModesInBand(rmc, ExactBound(band[1]), ExactBound(band[2]))} :
            /\ rmc' = res.self
            /\ rmcRet' = [op |-> "get_modes_in_band", low_freq |-> band[1],
                          high_freq |-> band[2],
                          raised |-> res.raised, ret |-> res.ret]
            /\ UNCHANGED notRmc

\* rmc.bonello_analysis(max_frequency)
CallBonelloAnalysis ==
    \E max_frequency \in BonelloCeilings :
        \E res \in {BonelloAnalysis(rmc, max_frequency)} :
            /\ rmc' = res.self
            /\ rmcRet' = [op |-> "bonello_analysis", max_frequency |-> max_frequency,
                          raised |-> res.raised, ret |-> res.ret]
            /\ UNCHANGED notRmc

\* rmc.analyze_mode_spacing()
CallAnalyzeModeSpacing ==
    \E res \in {AnalyzeModeSpacing(rmc)} :
        /\ rmc' = res.self
        /\ rmcRet' = [op |-> "analyze_mode_spacing",
                      raised |-> res.raised, ret |-> res.ret]
        /\ UNCHANGED notRmc

\* rmc.get_problematic_frequencies()
CallGetProblematicFrequencies ==
    \E res \in {GetProblematicFrequencies(rmc)} :
        /\ rmc' = res.self
        /\ rmcRet' = [op |-> "get_problematic_frequencies",
                      raised |-> res.raised, ret |-> res.ret]
        /\ UNCHANGED notRmc

QueryInit ==
    /\ \E dims \in QueryRooms :
           rmc = RoomModeCalculatorInit(dims[1], dims[2], dims[3], TRUE, 20)
    /\ rmcRet = [op |-> "__init__"]

QueryNext ==
    \/ NewQueriedRoom
    \/ CallCalculateAllModesFirst
    \/ CallGetAxialModes
    \/ CallGetModesInBand
    \/ CallBonelloAnalysis
    \/ CallAnalyzeModeSpacing
    \/ CallGetProblematicFrequencies

(***************************************************************************)
(* Machine-integer fractions n/d in lowest terms, d > 0                    *)
(***************************************************************************)
Abs(x) == IF x < 0 THEN -x ELSE x

RECURSIVE Gcd(_, _)
Gcd(a, b) == IF b = 0 THEN a ELSE Gcd(b, a % b)

Frac(n, d) ==
    LET g == Gcd(Abs(n), Abs(d))
        sgn == IF d < 0 THEN -1 ELSE 1
    IN  [n |-> sgn * (n \div g), d |-> sgn * (d \div g)]

FracSub(x, y) == Frac(x.n * y.d - y.n * x.d, x.d * y.d)
FracAdd(x, y) == Frac(x.n * y.d + y.n * x.d, x.d * y.d)
FracMul(x, y) == Frac(x.n * y.n, x.d * y.d)
FracDiv(x, y) == Frac(x.n * y.d, x.d * y.n)
FracLeq(x, y) == x.n * y.d <= y.n * x.d
FracLt(x, y) == x.n * y.d < y.n * x.d
FracZero == [n |-> 0, d |-> 1]

(***************************************************************************)
(* AbsorptionCalculator (core/absorption.py)                               *)
(*                                                                         *)
(* Dimensions in tenths of the unit, so areas in hundredths; coefficients  *)
(* in hundredths, so absorption (Sabins) in 1/10000; the Sabine constant   *)
(* in thousandths; target T60 in milliseconds.                             *)
(***************************************************************************)
\* abc: the AbsorptionCalculator instance; abcRet: what the last call on it
\* returned or raised.

FREQUENCIES == <<125, 250, 500, 1000, 2000, 4000>>

\* ABSORPTION_COEFFICIENTS, in hundredths.
ABSORPTION_COEFFICIENTS ==
    [concrete      |-> (125 :> 1  @@ 250 :> 1  @@ 500 :> 2  @@ 1000 :> 2  @@ 2000 :> 2  @@ 4000 :> 3),
     drywall       |-> (125 :> 29 @@ 250 :> 10 @@ 500 :> 5  @@ 1000 :> 4  @@ 2000 :> 7  @@ 4000 :> 9),
     plywood       |-> (125 :> 28 @@ 250 :> 22 @@ 500 :> 17 @@ 1000 :> 9  @@ 2000 :> 10 @@ 4000 :> 11),
     carpet        |-> (125 :> 1  @@ 250 :> 2  @@ 500 :> 6  @@ 1000 :> 15 @@ 2000 :> 25 @@ 4000 :> 45),
     hardwood      |-> (125 :> 15 @@ 250 :> 11 @@ 500 :> 10 @@ 1000 :> 7  @@ 2000 :> 6  @@ 4000 :> 7),
     glass         |-> (125 :> 35 @@ 250 :> 25 @@ 500 :> 18 @@ 1000 :> 12 @@ 2000 :> 7  @@ 4000 :> 4),
     brick         |-> (125 :> 3  @@ 250 :> 3  @@ 500 :> 3  @@ 1000 :> 4  @@ 2000 :> 5  @@ 4000 :> 7),
     acoustic_tile |-> (125 :> 10 @@ 250 :> 20 @@ 500 :> 40 @@ 1000 :> 55 @@ 2000 :> 60 @@ 4000 :> 55)]

\* TREATMENT_COEFFICIENTS of the two materials _recommend_treatment reads.
TREATMENT_COEFFICIENTS ==
    [rockwool_2_inch |-> (125 :> 30 @@ 250 :> 75 @@ 500 :> 100 @@ 1000 :> 100 @@ 2000 :> 100 @@ 4000 :> 100),
     rockwool_4_inch |-> (125 :> 80 @@ 250 :> 100 @@ 500 :> 100 @@ 1000 :> 100 @@ 2000 :> 100 @@ 4000 :> 100)]

\* The .get(..., 0.1) default of Surface.get_absorption.
DefaultCoefficient == 10

\* Surface.get_absorption: area * coefficient, 0.1 for an unknown material or band.
GetAbsorption(surface, frequency) ==
    LET known == /\ surface.surface_type \in DOMAIN ABSORPTION_COEFFICIENTS
                 /\ frequency \in DOMAIN ABSORPTION_COEFFICIENTS[surface.surface_type]
        coef == IF known THEN ABSORPTION_COEFFICIENTS[surface.surface_type][frequency]
                ELSE DefaultCoefficient
    IN  surface.area * coef

\* _setup_default_surfaces
SetupDefaultSurfaces(length, width, height) ==
    << [name |-> "Floor",      area |-> length * width,  surface_type |-> "hardwood"],
       [name |-> "Ceiling",    area |-> length * width,  surface_type |-> "drywall"],
       [name |-> "Front Wall", area |-> width * height,  surface_type |-> "drywall"],
       [name |-> "Rear Wall",  area |-> width * height,  surface_type |-> "drywall"],
       [name |-> "Left Wall",  area |-> length * height, surface_type |-> "drywall"],
       [name |-> "Right Wall", area |-> length * height, surface_type |-> "drywall"] >>

\* AbsorptionCalculator.__init__
AbsorptionCalculatorInit(length, width, height, use_metric) ==
    [length |-> length, width |-> width, height |-> height, use_metric |-> use_metric,
     sabine_constant |-> IF use_metric THEN 161 ELSE 49,
     surfaces |-> SetupDefaultSurfaces(length, width, height)]

\* str.lower() on the names the model passes.
Lower(name) ==
    CASE name = "Floor" -> "floor"
      [] name = "FLOOR" -> "floor"
      [] name = "Ceiling" -> "ceiling"
      [] name = "Front Wall" -> "front wall"
      [] name = "Rear Wall" -> "rear wall"
      [] name = "Left Wall" -> "left wall"
      [] name = "Right Wall" -> "right wall"
      [] name = "right wall" -> "right wall"
      [] OTHER -> name

\* set_surface_material: the first surface whose lowered name matches gets the
\* material; ValueError when none matches.
SetSurfaceMaterial(c, surface_name, surface_type) ==
    LET hits == {i \in 1 .. Len(c.surfaces) :
                    Lower(c.surfaces[i].name) = Lower(surface_name)}
    IN  IF hits = {}
        THEN [raised |-> "ValueError", surfaces |-> c.surfaces]
        ELSE LET first == CHOOSE i \in hits : \A j \in hits : i <= j
             IN  [raised |-> "none",
                  surfaces |-> [c.surfaces EXCEPT ![first].surface_type = surface_type]]

\* The properties volume (thousandths) and surface_area (hundredths).
AbcVolume(c) == c.length * c.width * c.height
AbcSurfaceArea(c) ==
    2 * (c.length * c.width + c.length * c.height + c.width * c.height)

RECURSIVE SumAbsorption(_, _)
SumAbsorption(surfaces, frequency) ==
    IF surfaces = << >> THEN 0
    ELSE GetAbsorption(Head(surfaces), frequency) + SumAbsorption(Tail(surfaces), frequency)

\* calculate_total_absorption, in 1/10000.
CalculateTotalAbsorption(c, frequency) == SumAbsorption(c.surfaces, frequency)

\* calculate_average_alpha = total / surface_area; the division raises when the
\* surface area is zero.
CalculateAverageAlpha(c, frequency) ==
    IF AbcSurfaceArea(c) = 0 THEN [raised |-> "ZeroDivisionError"]
    ELSE [raised |-> "none",
          value |-> Frac(CalculateTotalAbsorption(c, frequency), 100 * AbcSurfaceArea(c))]

\* A T60 is a record: form "sabine" is kv/absorption with kv = k*V in 1/10^6 and
\* absorption in 1/10^4; form "eyring" is kv/(-S*ln(1 - alpha)) with S in
\* hundredths; "inf" and "zero" are the floats inf and 0.0.
\* calculate_t60_sabine
CalculateT60Sabine(c, frequency) ==
    LET absorption == CalculateTotalAbsorption(c, frequency)
    IN  IF absorption = 0 THEN [raised |-> "none", form |-> "inf"]
        ELSE [raised |-> "none", form |-> "sabine",
              kv |-> c.sabine_constant * AbcVolume(c), absorption |-> absorption]

\* calculate_t60_eyring
CalculateT60Eyring(c, frequency) ==
    LET alpha == CalculateAverageAlpha(c, frequency)
    IN  IF alpha.raised # "none" THEN alpha
        ELSE IF FracLeq([n |-> 1, d |-> 1], alpha.value)
        THEN [raised |-> "none", form |-> "zero"]
        ELSE IF FracLeq(alpha.value, FracZero)
        THEN [raised |-> "none", form |-> "inf"]
        ELSE [raised |-> "none", form |-> "eyring",
              kv |-> c.sabine_constant * AbcVolume(c),
              surface_area |-> AbcSurfaceArea(c), alpha |-> alpha.value]

EyringRegimeInclusive(alpha) == FracLeq([n |-> 1, d |-> 5], alpha)

\* The test "alpha > 0.2" of calculate_t60.
EyringRegime(alpha) == FracLt([n |-> 1, d |-> 5], alpha)

\* calculate_t60
CalculateT60(c, frequency) ==
    LET alpha == CalculateAverageAlpha(c, frequency)
    IN  IF alpha.raised # "none" THEN alpha
        ELSE IF EyringRegime(alpha.value) THEN CalculateT60Eyring(c, frequency)
        ELSE CalculateT60Sabine(c, frequency)

\* calculate_required_absorption = k*V/target_t60 (the band is not used); the
\* division raises for a zero target.
CalculateRequiredAbsorption(c, target_t60, frequency) ==
    IF target_t60 = 0 THEN [raised |-> "ZeroDivisionError"]
    ELSE [raised |-> "none",
          value |-> Frac(c.sabine_constant * AbcVolume(c), 1000 * target_t60)]

FracMax0NoClamp(x) == x

\* max(0, x) for a fraction x.
FracMax0(x) == IF x.n <= 0 THEN FracZero ELSE x

\* round(x, 1) for a fraction x >= 0, in tenths (ties to the even tenth).
Round1(x) ==
    LET q == x.n \div x.d
        r == x.n % x.d
        t == (10 * r) \div x.d
        rest == (10 * r) % x.d
        tenths == 10 * q + t
    IN  IF 2 * rest > x.d \/ (2 * rest = x.d /\ tenths % 2 = 1)
        THEN tenths + 1 ELSE tenths

FracSumNotHalved(x, y) == FracAdd(x, y)

FracHalfSum(x, y) == FracMul(FracAdd(x, y), [n |-> 1, d |-> 2])

\* _recommend_treatment: the rule tree over the bass, mid and high deficits.
RecommendTreatment(missing_absorption) ==
    LET bass_deficit == FracHalfSum(missing_absorption[125], missing_absorption[250])
        mid_deficit == FracHalfSum(missing_absorption[500], missing_absorption[1000])
        high_deficit == FracHalfSum(missing_absorption[2000], missing_absorption[4000])
        trap == TREATMENT_COEFFICIENTS.rockwool_4_inch
        absorber == TREATMENT_COEFFICIENTS.rockwool_2_inch
        bass == IF FracLt(FracZero, bass_deficit)
                THEN << [type |-> "bass_trap",
                         area_needed |-> Round1(FracDiv(bass_deficit,
                                             Frac(trap[125] + trap[250], 200))),
                         priority |-> IF FracLt(mid_deficit, bass_deficit)
                                      THEN "high" ELSE "medium"] >>
                ELSE << >>
        mid == IF FracLt(FracZero, mid_deficit)
               THEN << [type |-> "broadband_absorber",
                        area_needed |-> Round1(FracDiv(mid_deficit,
                                            Frac(absorber[500] + absorber[1000], 200))),
                        priority |-> "high"] >>
               ELSE << >>
        high == IF FracLt(FracMul(mid_deficit, [n |-> 3, d |-> 2]), high_deficit)
                THEN << [type |-> "high_frequency_absorber",
                         area_needed |-> Round1(high_deficit),
                         priority |-> "low"] >>
                ELSE << >>
    IN  bass \o mid \o high

FreqSet == {FREQUENCIES[i] : i \in 1 .. Len(FREQUENCIES)}

\* analyze: the loop over FREQUENCIES stops at the first exception.
Analyze(c, target_t60) ==
    IF AbcSurfaceArea(c) = 0 \/ target_t60 = 0
    THEN [raised |-> "ZeroDivisionError"]
    ELSE LET required == [f \in FreqSet |->
                             CalculateRequiredAbsorption(c, target_t60, f).value]
             current == [f \in FreqSet |-> CalculateTotalAbsorption(c, f)]
             missing == [f \in FreqSet |->
                            FracMax0(FracSub(required[f], Frac(current[f], 10000)))]
         IN  [raised |-> "none",
              current_t60 |-> [f \in FreqSet |-> CalculateT60(c, f)],
              target_t60 |-> target_t60,
              current_absorption |-> current,
              required_absorption |-> required,
              missing_absorption |-> missing,
              recommended_treatment |-> RecommendTreatment(missing),
              room_volume |-> AbcVolume(c),
              surface_area |-> AbcSurfaceArea(c)]

\* Inputs of the calls.
AbcDims == {<<40, 30, 25>>, <<0, 0, 25>>}
SurfaceNames == {"FLOOR", "Ceiling", "Front Wall", "Rear Wall", "Left Wall",
                 "right wall", "Window"}
\* (surface_name, surface_type) pairs; "cork" is no key of the coefficient table.
SetMaterialInputs ==
    (SurfaceNames \X {"acoustic_tile"})
        \cup {<<"FLOOR", "cork">>, <<"Left Wall", "glass">>, <<"right wall", "glass">>}
BandInputs == FreqSet \cup {63}
TargetInputs == {0, 250, 500}

\* abc = AbsorptionCalculator(length, width, height, use_metric)
NewAbsorptionCalculator ==
    \E dims \in AbcDims, use_metric \in BOOLEAN :
        /\ abc' = AbsorptionCalculatorInit(dims[1], dims[2], dims[3], use_metric)
        /\ abcRet' = [op |-> "__init__"]
        /\ UNCHANGED notAbc

\* abc.set_surface_material(surface_name, surface_type)
CallSetSurfaceMaterial ==
    \E call \in SetMaterialInputs :
        LET surface_name == call[1]
            surface_type == call[2]
            res == SetSurfaceMaterial(abc, surface_name, surface_type)
        IN  /\ abc' = [abc EXCEPT !.surfaces = res.surfaces]
            /\ abcRet' = [op |-> "set_surface_material", surface_name |-> surface_name,
                          surface_type |-> surface_type, raised |-> res.raised]
            /\ UNCHANGED notAbc

\* abc.calculate_t60(frequency)
CallCalculateT60 ==
    \E frequency \in BandInputs :
        /\ abcRet' = [op |-> "calculate_t60", frequency |-> frequency,
                      ret |-> CalculateT60(abc, frequency)]
        /\ UNCHANGED <<abc, notAbc>>

\* abc.analyze(target_t60)
CallAnalyze ==
    \E target_t60 \in TargetInputs :
        /\ abcRet' = [op |-> "analyze", target_t60 |-> target_t60,
                      ret |-> Analyze(abc, target_t60)]
        /\ UNCHANGED <<abc, notAbc>>

AbcInit ==
    /\ \E dims \in AbcDims, use_metric \in BOOLEAN :
           abc = AbsorptionCalculatorInit(dims[1], dims[2], dims[3], use_metric)
    /\ abcRet = [op |-> "__init__"]

AbcNext ==
    NewAbsorptionCalculator \/ CallSetSurfaceMaterial \/ CallCalculateT60 \/ CallAnalyze

\* No AbsorptionCalculator is in use.
AbcIdle == abc = [op |-> "idle"] /\ abcRet = [op |-> "idle"]

(***************************************************************************)
(* ReverberationAnalyzer (core/reverberation.py)                           *)
(*                                                                         *)
(* A sample is a fraction or NaN.  A point of a decay curve is a level:    *)
(*   [kind |-> "ratio", n, d]  10*log10(n/d) dB, n/d an energy ratio > 0   *)
(*   [kind |-> "floor"]        10*log10(1e-20/E) dB for a total energy     *)
(*                             E >= 1: at most -200 dB                     *)
(*   [kind |-> "above", n, d]  10*log10((n/d)/1e-20) dB for an energy      *)
(*                             n/d >= 1: at least +200 dB                  *)
(*   [kind |-> "nan"]          NaN                                         *)
(* Thresholds are whole multiples of 5 dB within -200..200 dB, so that a   *)
(* level's comparison with one is decided exactly: 10*log10(n/d) <= -5*m   *)
(* iff n^2 * 10^m <= d^2.                                                  *)
(***************************************************************************)
NaN == [kind |-> "nan"]
FloorLevel == [kind |-> "floor"]
RatioLevel(n, d) == [kind |-> "ratio", n |-> Frac(n, d).n, d |-> Frac(n, d).d]
ZeroDb == RatioLevel(1, 1)

RECURSIVE Pow10(_)
Pow10(m) == IF m = 0 THEN 1 ELSE 10 * Pow10(m - 1)

\* level <= db, the elementwise test of "decay_curve <= start_db"; a NaN
\* compares false.
LevelLeqDb(level, db) ==
    CASE level.kind = "nan" -> FALSE
      [] level.kind = "floor" -> TRUE
      [] level.kind = "above" -> FALSE
      [] OTHER ->
           IF db <= 0
           THEN BigLeq(BigProd(<<level.n, level.n, Pow10((-db) \div 5)>>),
                       BigProd(<<level.d, level.d>>))
           ELSE BigLeq(BigProd(<<level.n, level.n>>),
                       BigProd(<<level.d, level.d, Pow10(db \div 5)>>))

\* x <= y for two levels (used by the properties only; the code never compares
\* two points of a curve).
LevelLeq(x, y) ==
    CASE x.kind = "nan" \/ y.kind = "nan" -> FALSE
      [] x.kind = "floor" -> TRUE
      [] y.kind = "floor" -> FALSE
      [] x.kind = "above" /\ y.kind # "above" -> FALSE
      [] x.kind # "above" /\ y.kind = "above" -> TRUE
      [] OTHER -> BigLeq(BigProd(<<x.n, y.d>>), BigProd(<<y.n, x.d>>))

\* ReverberationAnalyzer.__init__
ReverberationAnalyzerInit(sample_rate) == [sample_rate |-> sample_rate]

\* impulse_response ** 2, elementwise.
Squared(ir) ==
    [i \in 1 .. Len(ir) |->
        IF ir[i] = NaN THEN NaN ELSE Frac(ir[i].n * ir[i].n, ir[i].d * ir[i].d)]

EnergyAdd(x, y) == IF x = NaN \/ y = NaN THEN NaN ELSE FracAdd(x, y)

RECURSIVE CumSum(_)
CumSum(xs) ==
    IF Len(xs) <= 1 THEN xs
    ELSE LET front == CumSum(SubSeq(xs, 1, Len(xs) - 1))
         IN  Append(front, EnergyAdd(front[Len(front)], xs[Len(xs)]))

Reverse(xs) == [i \in 1 .. Len(xs) |-> xs[Len(xs) + 1 - i]]

ForwardCumSum(squared) == CumSum(squared)

\* np.cumsum(squared[::-1])[::-1]
BackwardsCumSum(squared) == Reverse(CumSum(Reverse(squared)))

\* np.maximum(backwards_sum, 1e-20): a sum of 0 becomes 1e-20, every other sum
\* of the model is far above it; NaN stays NaN.
Energy1em20 == [kind |-> "1e-20"]
FloorEnergy(e) == IF e # NaN /\ e.n = 0 THEN Energy1em20 ELSE e

\* 10 * np.log10(e / e0) as a level.
DecayDb(e, e0) ==
    IF e = NaN \/ e0 = NaN THEN NaN
    ELSE IF e0 = Energy1em20
    THEN (IF e = Energy1em20 THEN ZeroDb ELSE [kind |-> "above", n |-> e.n, d |-> e.d])
    ELSE IF e = Energy1em20 THEN FloorLevel
    ELSE RatioLevel(e.n * e0.d, e.d * e0.n)

\* schroeder_integration; backwards_sum[0] of an empty array raises.
SchroederIntegration(impulse_response) ==
    IF impulse_response = << >> THEN [raised |-> "IndexError"]
    ELSE LET sums == BackwardsCumSum(Squared(impulse_response))
             floored == [i \in 1 .. Len(sums) |-> FloorEnergy(sums[i])]
         IN  [raised |-> "none",
              decay_db |-> [i \in 1 .. Len(floored) |-> DecayDb(floored[i], floored[1])]]

\* np.where(decay_curve <= db)[0]: the 0-based indices at or below db.
IndicesAtOrBelow(decay_curve, db) ==
    {i - 1 : i \in {j \in 1 .. Len(decay_curve) : LevelLeqDb(decay_curve[j], db)}}

MinOf(S) == CHOOSE x \in S : \A y \in S : x <= y
MaxOf(S) == CHOOSE x \in S : \A y \in S : y <= x

CalculateDecayTimeLastIndex(sample_rate, decay_curve, start_db, end_db) ==
    LET starts == IndicesAtOrBelow(decay_curve, start_db)
        ends == IndicesAtOrBelow(decay_curve, end_db)
    IN  IF starts = {} \/ ends = {} THEN NaN
        ELSE IF start_db = end_db THEN [kind |-> "ZeroDivisionError"]
        ELSE [kind |-> "value",
              value |-> Frac((MaxOf(ends) - MinOf(starts)) * 60,
                             sample_rate * Abs(end_db - start_db))]

CalculateDecayTimeEndClamped(sample_rate, decay_curve, start_db, end_db) ==
    LET starts == IndicesAtOrBelow(decay_curve, start_db)
        ends == IndicesAtOrBelow(decay_curve, end_db)
    IN  IF starts = {} THEN NaN
        ELSE IF start_db = end_db THEN [kind |-> "ZeroDivisionError"]
        ELSE LET end_idx == IF ends = {} THEN Len(decay_curve) - 1 ELSE MinOf(ends)
             IN  [kind |-> "value",
                  value |-> Frac((end_idx - MinOf(starts)) * 60,
                                 sample_rate * Abs(end_db - start_db))]

\* calculate_decay_time: NaN when a threshold is never reached, else
\* ((end_idx - start_idx) / sample_rate) * (60 / |end_db - start_db|), the last
\* division raising for equal thresholds.
CalculateDecayTime(sample_rate, decay_curve, start_db, end_db) ==
    LET starts == IndicesAtOrBelow(decay_curve, start_db)
        ends == IndicesAtOrBelow(decay_curve, end_db)
    IN  IF starts = {} \/ ends = {} THEN NaN
        ELSE IF start_db = end_db THEN [kind |-> "ZeroDivisionError"]
        ELSE [kind |-> "value",
              value |-> Frac((MinOf(ends) - MinOf(starts)) * 60,
                             sample_rate * Abs(end_db - start_db))]

\* x * 6 for a decay time x.
Times6(x) ==
    IF x.kind = "value" THEN [kind |-> "value", value |-> FracMul(x.value, Frac(6, 1))]
    ELSE x

\* impulse_response / np.max(np.abs(impulse_response)) for whole-number
\* samples: 0/0 is NaN.
Normalize(impulse_response) ==
    LET peak == MaxOf({Abs(impulse_response[i]) : i \in 1 .. Len(impulse_response)})
    IN  [i \in 1 .. Len(impulse_response) |->
            IF peak = 0 THEN NaN ELSE Frac(impulse_response[i], peak)]

\* analyze_impulse_response; np.max of an empty array raises ValueError.
AnalyzeImpulseResponse(sample_rate, impulse_response) ==
    IF impulse_response = << >> THEN [raised |-> "ValueError"]
    ELSE LET ir_norm == Normalize(impulse_response)
             decay_curve == SchroederIntegration(ir_norm).decay_db
             t30 == CalculateDecayTime(sample_rate, decay_curve, -5, -35)
             t20 == CalculateDecayTime(sample_rate, decay_curve, -5, -25)
             edt == Times6(CalculateDecayTime(sample_rate, decay_curve, 0, -10))
         IN  [raised |-> "none", t60 |-> t30, t30 |-> t30, t20 |-> t20, edt |-> edt,
              frequency |-> "None", decay_curve |-> decay_curve,
              time_axis |-> [i \in 1 .. Len(ir_norm) |-> Frac(i - 1, sample_rate)]]

\* [63, 125, 250, 500, 1000, 2000, 4000, 8000]
DefaultBandFrequencies == <<63, 125, 250, 500, 1000, 2000, 4000, 8000>>

\* low_norm < high_norm for low_norm = max(freq/sqrt(2)/nyquist, 0.001) and
\* high_norm = min(freq*sqrt(2)/nyquist, 0.999), nyquist = sample_rate/2:
\* the band edges signal.butter accepts.  With x = 2*freq/sample_rate the
\* four comparisons are made on squares: x/sqrt(2) < 0.999 iff
\* 2*freq < 0.999*sqrt(2)*sample_rate, and so on.
BandPassDesigned(sample_rate, freq) ==
    LET f2 == BigProd(<<2000, freq, 2000, freq>>)             \* (2000*freq)^2
        r2 == BigProd(<<sample_rate, sample_rate>>)
        r999 == BigProd(<<999, sample_rate, 999, sample_rate>>)
        lowClamped == BigLt(f2, BigMulInt(r2, 2))        \* low/nyquist < 0.001
        highClamped == BigLt(r999, BigMulInt(f2, 2))     \* high/nyquist > 0.999
    IN  IF lowClamped /\ highClamped THEN TRUE
        ELSE IF lowClamped THEN BigLt(r2, BigMulInt(f2, 2))
        ELSE IF highClamped THEN BigLt(f2, BigMulInt(r999, 2))
        ELSE freq > 0

\* signal.filtfilt pads by 3 * max(len(a), len(b)) samples, 9 coefficients
\* each for the 4th-order band-pass, and raises ValueError for an input that
\* is not longer than the padding.
FiltfiltPadLen == 3 * 9

\* analyze_by_frequency_bands: the map of the bands analysed.  Every
\* exception of a band's filter design, filtering and analysis is swallowed
\* and the band skipped.  The samples of a filtered response are not
\* carried: the analysis of a band that was filtered is the opaque record
\* [frequency, filtered_length].
AnalyzeByFrequencyBands(sample_rate, impulse_response, frequencies) ==
    LET analysed == {i \in 1 .. Len(frequencies) :
                        /\ Len(impulse_response) > FiltfiltPadLen
                        /\ BandPassDesigned(sample_rate, frequencies[i])}
    IN  [raised |-> "none",
         results |-> [f \in {frequencies[i] : i \in analysed} |->
                         [frequency |-> f,
                          filtered_length |-> Len(impulse_response)]]]

\* Longest impulse response and longest decay curve a call is made with.
MaxIrLen == 2
MaxCurveLen == 2

SeqsUpTo(S, n) == UNION {[1 .. k -> S] : k \in 0 .. n}

\* Inputs of the calls: whole-number samples; curves of the levels 0, -10 and
\* -40 dB in any order; (start_db, end_db) pairs.
SampleRates == {1000, 48000}
SampleValues == {0, 1, 3, 60}
IrInputs == SeqsUpTo(SampleValues, MaxIrLen)
CurveLevels == {ZeroDb, RatioLevel(1, 10), RatioLevel(1, 10000)}
CurveInputs == SeqsUpTo(CurveLevels, MaxCurveLen)
DbPairs == {<<0, -10>>, <<-5, -25>>, <<-5, -35>>, <<-10, -10>>}

\* ra = ReverberationAnalyzer(sample_rate)
NewReverberationAnalyzer ==
    \E sample_rate \in SampleRates :
        /\ ra' = ReverberationAnalyzerInit(sample_rate)
        /\ raRet' = [op |-> "__init__"]
        /\ UNCHANGED notRa

\* ra.schroeder_integration(impulse_response)
CallSchroederIntegration ==
    \E ir \in IrInputs :
        /\ raRet' = [op |-> "schroeder_integration", impulse_response |-> ir,
                     ret |-> SchroederIntegration(
                                 [i \in 1 .. Len(ir) |-> Frac(ir[i], 1)])]
        /\ UNCHANGED <<ra, notRa>>

\* ra.calculate_decay_time(decay_curve, start_db, end_db)
CallCalculateDecayTime ==
    \E decay_curve \in CurveInputs, dbs \in DbPairs :
        /\ raRet' = [op |-> "calculate_decay_time", decay_curve |-> decay_curve,
                     start_db |-> dbs[1], end_db |-> dbs[2],
                     ret |-> CalculateDecayTime(ra.sample_rate, decay_curve,
                                                dbs[1], dbs[2])]
        /\ UNCHANGED <<ra, notRa>>

\* ra.analyze_impulse_response(impulse_response)
CallAnalyzeImpulseResponse ==
    \E ir \in IrInputs :
        /\ raRet' = [op |-> "analyze_impulse_response", impulse_response |-> ir,
                     ret |-> AnalyzeImpulseResponse(ra.sample_rate, ir)]
        /\ UNCHANGED <<ra, notRa>>

\* ra.analyze_by_frequency_bands(impulse_response)
CallAnalyzeByFrequencyBands ==
    \E ir \in IrInputs :
        /\ raRet' = [op |-> "analyze_by_frequency_bands", impulse_response |-> ir,
                     ret |-> AnalyzeByFrequencyBands(ra.sample_rate, ir,
                                                     DefaultBandFrequencies)]
        /\ UNCHANGED <<ra, notRa>>

\* a <= b for decay times and thresholds: false when either is NaN.
TimeLeq(a, b) == a # NaN /\ b # NaN /\ FracLeq(a.value, b.value)
TimeLt(a, b) == a # NaN /\ b # NaN /\ FracLt(a.value, b.value)

\* A float literal of seconds, n / d.
Seconds(n, d) == [kind |-> "value", value |-> Frac(n, d)]

\* DecayAnalysis.meets_target: target_low <= self.t60 <= target_high
MeetsTarget(self, target_low, target_high) ==
    TimeLeq(target_low, self.t60) /\ TimeLeq(self.t60, target_high)

\* DecayAnalysis.quality_rating: the if/elif chain, the last verdict under else.
QualityRating(self) ==
    IF TimeLeq(Seconds(2, 10), self.t60) /\ TimeLeq(self.t60, Seconds(3, 10))
    THEN "Excellent for studio work"
    ELSE IF TimeLeq(Seconds(15, 100), self.t60) /\ TimeLt(self.t60, Seconds(2, 10))
    THEN "Slightly dead - may sound dry"
    ELSE IF TimeLt(Seconds(3, 10), self.t60) /\ TimeLeq(self.t60, Seconds(4, 10))
    THEN "Slightly live - acceptable"
    ELSE IF TimeLt(self.t60, Seconds(15, 100))
    THEN "Too dead - add diffusion"
    ELSE "Too live - add absorption"

\* Decay times of a DecayAnalysis built by hand, and target ranges.
T60Inputs ==
    {NaN, Seconds(1, 10), Seconds(15, 100), Seconds(2, 10), Seconds(25, 100),
     Seconds(3, 10), Seconds(35, 100), Seconds(1, 2)}
TargetRanges ==
    {<<Seconds(2, 10), Seconds(3, 10)>>, <<Seconds(0, 1), Seconds(10, 1)>>,
     <<Seconds(3, 10), Seconds(2, 10)>>}

\* The DecayAnalysis objects at hand: the one analyze_impulse_response has
\* just returned, and those constructed from a t60 directly.
DecayAnalyses ==
    {[t60 |-> t] : t \in T60Inputs}
        \cup (IF raRet.op = "analyze_impulse_response" /\ raRet.ret.raised = "none"
              THEN {[t60 |-> raRet.ret.t60]} ELSE {})

\* analysis.meets_target(target_low, target_high)
CallMeetsTarget ==
    \E self \in DecayAnalyses, range \in TargetRanges :
        /\ raRet' = [op |-> "meets_target", t60 |-> self.t60,
                     target_low |-> range[1], target_high |-> range[2],
                     ret |-> MeetsTarget(self, range[1], range[2])]
        /\ UNCHANGED <<ra, notRa>>

\* analysis.quality_rating
ReadQualityRating ==
    \E self \in DecayAnalyses :
        /\ raRet' = [op |-> "quality_rating", t60 |-> self.t60,
                     ret |-> QualityRating(self)]
        /\ UNCHANGED <<ra, notRa>>

RaInit ==
    /\ \E sample_rate \in SampleRates : ra = ReverberationAnalyzerInit(sample_rate)
    /\ raRet = [op |-> "__init__"]

RaNext ==
    \/ NewReverberationAnalyzer
    \/ CallSchroederIntegration
    \/ CallCalculateDecayTime
    \/ CallAnalyzeImpulseResponse
    \/ CallAnalyzeByFrequencyBands
    \/ CallMeetsTarget
    \/ ReadQualityRating

\* No ReverberationAnalyzer is in use.
RaIdle == ra = [op |-> "idle"] /\ raRet = [op |-> "idle"]

(***************************************************************************)
(* SchroederAnalyzer (core/schroeder.py)                                   *)
(*                                                                         *)
(* Volumes and reverberation times are fractions.  A frequency returned by *)
(* calculate_schroeder_frequency is [kind |-> "value", scale, sqrt_of]:    *)
(* scale * sqrt(sqrt_of); a modal density is [kind |-> "value", pi_times]: *)
(* pi * pi_times.                                                          *)
(***************************************************************************)
SPEED_OF_SOUND == 344

\* x * y, cancelling before multiplying.
FracMulReduced(x, y) ==
    LET a == Frac(x.n, y.d)
        b == Frac(y.n, x.d)
    IN  Frac(a.n * b.n, a.d * b.d)

\* ft^3 to m^3: 0.0283168
CubicFeetToCubicMetres == Frac(8849, 312500)

ToCubicMetresUnconverted(volume, use_metric) == volume

\* __init__: the volume kept is in m^3.
ToCubicMetres(volume, use_metric) ==
    IF use_metric THEN volume ELSE FracMulReduced(volume, CubicFeetToCubicMetres)

SchroederAnalyzerInit(volume, t60, use_metric) ==
    [use_metric |-> use_metric,
     volume |-> ToCubicMetres(volume, use_metric),
     t60 |-> t60]

\* 2000 * np.sqrt(self.t60 / self.volume): the division raises for a zero
\* volume, the root of a negative ratio is NaN.
CalculateSchroederFrequency(self) ==
    IF self.volume.n = 0 THEN [kind |-> "ZeroDivisionError"]
    ELSE LET ratio == FracMulReduced(self.t60, Frac(self.volume.d, self.volume.n))
         IN  IF ratio.n < 0 THEN NaN
             ELSE [kind |-> "value", scale |-> 2000, sqrt_of |-> ratio]

\* (4 * np.pi * self.volume * frequency**2) / (c**3)
CalculateModalDensity(self, frequency) ==
    LET c == SPEED_OF_SOUND
    IN  [kind |-> "value",
         pi_times |-> FracMulReduced(Frac(4 * frequency * frequency, c * c * c),
                                     self.volume)]

\* fc > hz and fc < hz for fc = 2000 * sqrt(ratio): comparisons with NaN are
\* false.
FcAbove(fc, hz) ==
    /\ fc.kind = "value"
    /\ FracLt(Frac(hz * hz, fc.scale * fc.scale), fc.sqrt_of)

FcBelow(fc, hz) ==
    /\ fc.kind = "value"
    /\ FracLt(fc.sqrt_of, Frac(hz * hz, fc.scale * fc.scale))

\* _get_recommendation: which of the four texts, and the fc it quotes.
GetRecommendation(fc) ==
    [text |-> IF FcBelow(fc, 100) THEN "Low Schroeder frequency"
              ELSE IF FcBelow(fc, 200) THEN "Moderate Schroeder frequency"
              ELSE IF FcBelow(fc, 300) THEN "High Schroeder frequency"
              ELSE "Very high Schroeder frequency",
     fc |-> fc]

\* "priority": "critical" if fc > 100 else "high"
DeepBassPriority(fc) == IF FcAbove(fc, 100) THEN "critical" ELSE "high"

\* The five zones of get_treatment_zones (the "range" text repeats low and
\* high).
TreatmentZones(fc) ==
    <<[name |-> "Deep Bass Zone", low |-> 20, high |-> 80,
       behavior |-> "Strong modal behavior",
       treatment |-> "Pressure-based bass traps (membrane/diaphragmatic)",
       placement |-> "Room corners (tri-corners for maximum effect)",
       priority |-> DeepBassPriority(fc)],
      [name |-> "Upper Bass Zone", low |-> 80, high |-> 300,
       behavior |-> "Modal to transition",
       treatment |-> "Thick porous absorbers (4-6 inches) or tuned bass traps",
       placement |-> "Wall-ceiling corners, behind listening position",
       priority |-> "high"],
      [name |-> "Low-Mid Zone", low |-> 300, high |-> 1000,
       behavior |-> "Mostly diffuse field",
       treatment |-> "Broadband absorbers (2-4 inches)",
       placement |-> "First reflection points",
       priority |-> "high"],
      [name |-> "Mid-High Zone", low |-> 1000, high |-> 4000,
       behavior |-> "Diffuse field",
       treatment |-> "Absorbers + Diffusers",
       placement |-> "Rear wall, ceiling",
       priority |-> "medium"],
      [name |-> "High Frequency Zone", low |-> 4000, high |-> 20000,
       behavior |-> "Ray acoustics",
       treatment |-> "Thin absorbers, diffusers, or natural room absorption",
       placement |-> "Generally self-treating via furnishings",
       priority |-> "low"]>>

\* get_treatment_zones; schroeder_frequency = round(fc, 1) is carried as the
\* fc it rounds.
GetTreatmentZones(self) ==
    LET fc == CalculateSchroederFrequency(self)
    IN  IF fc.kind = "ZeroDivisionError" THEN [raised |-> "ZeroDivisionError"]
        ELSE [raised |-> "none",
              ret |-> [schroeder_frequency |-> [round1_of |-> fc],
                       zones |-> TreatmentZones(fc),
                       recommendation |-> GetRecommendation(fc)]]

\* Inputs: (volume, use_metric) with 8.849 m^3 and 312.5 ft^3 one room;
\* reverberation times; frequencies in Hz.
RoomVolumes ==
    {<<Frac(30, 1), TRUE>>, <<Frac(50, 1), TRUE>>, <<Frac(8849, 1000), TRUE>>,
     <<Frac(0, 1), TRUE>>, <<Frac(-30, 1), TRUE>>,
     <<Frac(625, 2), FALSE>>, <<Frac(1000, 1), FALSE>>, <<Frac(30, 1), FALSE>>,
     <<Frac(0, 1), FALSE>>}
ReverberationTimes == {Frac(3, 10), Frac(1, 2), Frac(0, 1), Frac(-3, 10)}
DensityFrequencies == {100, 200}

\* sa = SchroederAnalyzer(volume, t60, use_metric)
NewSchroederAnalyzer ==
    \E room \in RoomVolumes, t60 \in ReverberationTimes :
        /\ sa' = SchroederAnalyzerInit(room[1], t60, room[2])
        /\ saArgs' = [volume |-> room[1], t60 |-> t60, use_metric |-> room[2]]
        /\ saRet' = [op |-> "__init__"]
        /\ UNCHANGED notSa

\* sa.calculate_schroeder_frequency()
CallCalculateSchroederFrequency ==
    /\ saRet' = [op |-> "calculate_schroeder_frequency",
                 ret |-> CalculateSchroederFrequency(sa)]
    /\ UNCHANGED <<sa, saArgs, notSa>>

\* sa.calculate_modal_density(frequency)
CallCalculateModalDensity ==
    \E frequency \in DensityFrequencies :
        /\ saRet' = [op |-> "calculate_modal_density", frequency |-> frequency,
                     ret |-> CalculateModalDensity(sa, frequency)]
        /\ UNCHANGED <<sa, saArgs, notSa>>

\* sa.get_treatment_zones()
CallGetTreatmentZones ==
    /\ saRet' = [op |-> "get_treatment_zones",
                 raised |-> GetTreatmentZones(sa).raised,
                 ret |-> IF GetTreatmentZones(sa).raised = "none"
                         THEN GetTreatmentZones(sa).ret ELSE << >>]
    /\ UNCHANGED <<sa, saArgs, notSa>>

SaInit ==
    /\ \E room \in RoomVolumes, t60 \in ReverberationTimes :
           /\ sa = SchroederAnalyzerInit(room[1], t60, room[2])
           /\ saArgs = [volume |-> room[1], t60 |-> t60, use_metric |-> room[2]]
    /\ saRet = [op |-> "__init__"]

SaNext ==
    \/ NewSchroederAnalyzer
    \/ CallCalculateSchroederFrequency
    \/ CallCalculateModalDensity
    \/ CallGetTreatmentZones

\* No SchroederAnalyzer is in use.
SaIdle == sa = [op |-> "idle"] /\ saArgs = [op |-> "idle"] /\ saRet = [op |-> "idle"]

(***************************************************************************)
(* PorousAbsorberCalculator (core/porous_absorber.py)                      *)
(*                                                                         *)
(* calculate runs a sweep of complex-valued closed forms; of its result    *)
(* the model carries what the code's branches decide: the empirical law    *)
(* the sweep used, the backing behind the layer, and the fields copied     *)
(* from the arguments.  Lengths in millimetres, resistivity in Pa.s/m^2.   *)
(***************************************************************************)
\* The branch at "if model == 'delany_bazley'": every other name is Miki.
EmpiricalLaw(model) == IF model = "delany_bazley" THEN "_delany_bazley" ELSE "_miki"

\* _surface_impedance: an air layer behind the absorber only for a gap > 0.
Backing(air_gap_mm) == IF air_gap_mm > 0 THEN "air_gap" ELSE "rigid_wall"

\* x ** k for a fraction x and a natural k.
RECURSIVE FracPow(_, _)
FracPow(x, k) == IF k = 0 THEN Frac(1, 1) ELSE FracMul(x, FracPow(x, k - 1))

\* The common ratios of the sweeps drawn below.
SweepRatios == {Frac(1, 10), Frac(2, 1), Frac(10, 1), Frac(1000, 1)}

\* np.logspace(np.log10(freq_min), np.log10(freq_max), n_points): n_points
\* frequencies in geometric progression, the first freq_min and, for more
\* than one point, the last freq_max.
Logspace(freq_min, freq_max, n_points) ==
    IF n_points = 1 THEN <<freq_min>>
    ELSE LET ratio == Only({r \in SweepRatios :
                              FracPow(r, n_points - 1) = FracDiv(freq_max, freq_min)})
         IN  [i \in 1..n_points |-> FracMul(freq_min, FracPow(ratio, i - 1))]

\* "a >= 0.5" on an entry of alpha_random; false for NaN.
ReachesHalf(a) == a # NaN /\ FracLeq(Frac(1, 2), a)

\* The loop without its break: the last index whose absorption is >= 0.5 wins.
EffLowNoBreak(freq, alpha_random, freq_max, i) ==
    LET hit == {j \in i..Len(alpha_random) : ReachesHalf(alpha_random[j])}
    IN  IF hit = {} THEN freq_max
        ELSE freq[CHOOSE j \in hit : \A k \in hit : k <= j]

\* The loop "for i, a in enumerate(alpha_random)": the frequency at the first
\* index, in sweep order, whose absorption is >= 0.5; freq_max when the loop
\* ends without a break.
RECURSIVE EffLow(_, _, _, _)
EffLow(freq, alpha_random, freq_max, i) ==
    IF i > Len(alpha_random) THEN freq_max
    ELSE IF ReachesHalf(alpha_random[i]) THEN freq[i]
    ELSE EffLow(freq, alpha_random, freq_max, i + 1)

\* calculate: no argument is checked; numpy's divisions by zero and powers of
\* negative numbers give inf and NaN in the arrays, never an exception.
\* alpha_random stands for the array _random_incidence_absorption returns:
\* one value per sweep frequency, each in [0, 1] or NaN.  effective_low_freq
\* is carried in tenths of a hertz.
PorousCalculate(thickness_mm, flow_resistivity, air_gap_mm, model, freq_min, freq_max, alpha_random) ==
    [kind |-> "PorousAbsorberResult",
     law |-> EmpiricalLaw(model),
     backing |-> Backing(air_gap_mm),
     frequencies |-> Logspace(freq_min, freq_max, Len(alpha_random)),
     absorption_random |-> alpha_random,
     effective_low_freq |->
         Round1(EffLow(Logspace(freq_min, freq_max, Len(alpha_random)),
                       alpha_random, freq_max, 1)),
     total_depth_mm |-> thickness_mm + air_gap_mm,
     model |-> model]

ThicknessInputs == {-50, 0, 50, 100}
ResistivityInputs == {-1, 0, 10000, 25000}
AirGapInputs == {-10, 0, 50}
ModelInputs == {"delany_bazley", "miki", "allard_champoux"}
\* <<freq_min, freq_max, n_points>>
SweepInputs ==
    {<<Frac(20, 1), Frac(20000, 1), 4>>, <<Frac(125, 4), Frac(250, 1), 4>>,
     <<Frac(20000, 1), Frac(20, 1), 4>>, <<Frac(20, 1), Frac(20000, 1), 2>>,
     <<Frac(20, 1), Frac(20000, 1), 1>>}
AlphaInputs == {Frac(3, 10), Frac(1, 2), NaN}

\* PorousAbsorberCalculator()
NewPorousAbsorberCalculator ==
    /\ pacRet' = [op |-> "__init__"]
    /\ UNCHANGED notPac

\* calc.calculate(thickness_mm, flow_resistivity, air_gap_mm, model,
\*                freq_min, freq_max, n_points)
\* The calculator has no fields and calculate reads nothing but its arguments,
\* so no call depends on an earlier one: each calculator constructed makes one
\* call.
CallPorousCalculate ==
    /\ pacRet.op = "__init__"
    /\ \E thickness_mm \in ThicknessInputs, flow_resistivity \in ResistivityInputs,
       air_gap_mm \in AirGapInputs, model \in ModelInputs, sweep \in SweepInputs :
        \E alpha_random \in [1..sweep[3] -> AlphaInputs] :
            /\ pacRet' = [op |-> "calculate", thickness_mm |-> thickness_mm,
                          flow_resistivity |-> flow_resistivity,
                          air_gap_mm |-> air_gap_mm, model |-> model,
                          freq_min |-> sweep[1], freq_max |-> sweep[2],
                          n_points |-> sweep[3],
                          ret |-> PorousCalculate(thickness_mm, flow_resistivity,
                                                  air_gap_mm, model, sweep[1],
                                                  sweep[2], alpha_random)]
            /\ UNCHANGED notPac

PacInit == pacRet = [op |-> "__init__"]

PacNext == NewPorousAbsorberCalculator \/ CallPorousCalculate

\* No PorousAbsorberCalculator is in use.
PacIdle == pacRet = [op |-> "idle"]

(***************************************************************************)
(* MLSGenerator (treatment/mls_generator.py)                               *)
(*                                                                         *)
(* A register is a natural number below 2^order; bit k of it is the        *)
(* code's (register >> k) & 1.                                             *)
(***************************************************************************)
None == [kind |-> "None"]

\* A Python int passed where None may be passed as well.
PyInt(n) == [kind |-> "int", value |-> n]

\* PRIMITIVE_POLYNOMIALS: order -> tap positions, counted from 1 at the
\* least significant bit.
PRIMITIVE_POLYNOMIALS ==
    [n \in 3..10 |->
        CASE n = 3 -> <<3, 2>>
          [] n = 4 -> <<4, 3>>
          [] n = 5 -> <<5, 3>>
          [] n = 6 -> <<6, 5>>
          [] n = 7 -> <<7, 6>>
          [] n = 8 -> <<8, 6, 5, 4>>
          [] n = 9 -> <<9, 5>>
          [] n = 10 -> <<10, 7>>]

\* (register >> k) & 1
Bit(register, k) == (register \div 2^k) % 2

\* The xor of the register's bits at the tap positions.
RECURSIVE Feedback(_, _, _)
Feedback(register, taps, i) ==
    IF i > Len(taps) THEN 0
    ELSE (Bit(register, taps[i] - 1) + Feedback(register, taps, i + 1)) % 2

\* The shift with a zero in place of the feedback bit.
ShiftWithoutFeedback(order, register) == (2 * register) % 2^order

\* ((register << 1) | feedback) & ((1 << order) - 1)
Shift(order, register) ==
    (2 * register + Feedback(register, PRIMITIVE_POLYNOMIALS[order], 1)) % 2^order

\* The register before the first iteration: all ones without a seed, else the
\* seed's low order bits, and 1 when those are all zero.
SeedRegister(order, seed) ==
    IF seed = None THEN 2^order - 1
    ELSE IF seed.value % 2^order = 0 THEN 1
    ELSE seed.value % 2^order

\* The values register holds at the start of the next k iterations of the
\* loop of generate_mls: those of the first k \div 2 iterations, then those of
\* the rest, which start one shift after the last of the former.
RECURSIVE RegistersFrom(_, _, _)
RegistersFrom(order, register, k) ==
    IF k = 0 THEN << >>
    ELSE IF k = 1 THEN <<register>>
    ELSE Only({head \o RegistersFrom(order, Shift(order, head[Len(head)]),
                                     k - (k \div 2)) :
                  head \in {RegistersFrom(order, register, k \div 2)}})

\* The values of register over the 2^order - 1 iterations of generate_mls.
RegisterStates(order, seed) ==
    RegistersFrom(order, SeedRegister(order, seed), 2^order - 1)

\* generate_mls(order, seed): each iteration appends the register's most
\* significant bit.
GenerateMls(order, seed) ==
    IF order \notin DOMAIN PRIMITIVE_POLYNOMIALS
    THEN [raised |-> "ValueError"]
    ELSE [raised |-> "none",
          ret |-> Only({[i \in 1..Len(registers) |-> Bit(registers[i], order - 1)] :
                          registers \in {RegisterStates(order, seed)}})]

\* get_all_mls_orders(): one entry per order of the table.
GetAllMlsOrders ==
    [n \in DOMAIN PRIMITIVE_POLYNOMIALS |->
        [order |-> n, length |-> 2^n - 1, num_ones |-> 2^(n - 1),
         num_zeros |-> 2^(n - 1) - 1, taps |-> PRIMITIVE_POLYNOMIALS[n]]]

\* find_optimal_order(target_elements): the order whose length 2^n - 1 is
\* nearest the target, the lowest such order on a tie.
RECURSIVE BestOrderFrom(_, _, _)
BestOrderFrom(target_elements, best_order, order) ==
    IF order > 10 THEN best_order
    ELSE IF Abs(target_elements - (2^order - 1))
                < Abs(target_elements - (2^best_order - 1))
         THEN BestOrderFrom(target_elements, order, order + 1)
         ELSE BestOrderFrom(target_elements, best_order, order + 1)

FindOptimalOrder(target_elements) == BestOrderFrom(target_elements, 3, 3)

\* int(x ** 0.5) for a natural x.
RECURSIVE IntSqrtFrom(_, _)
IntSqrtFrom(x, r) == IF (r + 1) * (r + 1) > x THEN r ELSE IntSqrtFrom(x, r + 1)

\* The list "factors" of _find_grid_factors: (i, j) and (j, i) for every
\* divisor i of length from 2 up to its square root.
RECURSIVE FactorPairsFrom(_, _)
FactorPairsFrom(length, i) ==
    IF i > IntSqrtFrom(length, 0) THEN << >>
    ELSE IF length % i = 0
         THEN <<<<i, length \div i>>, <<length \div i, i>>>>
                  \o FactorPairsFrom(length, i + 1)
         ELSE FactorPairsFrom(length, i + 1)

\* abs((r / c) - aspect_ratio)
AspectDiff(pair, aspect_ratio) ==
    LET d == FracSub(Frac(pair[1], pair[2]), aspect_ratio)
    IN  IF d.n < 0 THEN Frac(-d.n, d.d) ELSE d

\* The pair of factors nearest the aspect ratio, the earliest on a tie.
RECURSIVE BestFactorsFrom(_, _, _, _)
BestFactorsFrom(factors, aspect_ratio, best, k) ==
    IF k > Len(factors) THEN best
    ELSE IF FracLt(AspectDiff(factors[k], aspect_ratio), AspectDiff(best, aspect_ratio))
         THEN BestFactorsFrom(factors, aspect_ratio, factors[k], k + 1)
         ELSE BestFactorsFrom(factors, aspect_ratio, best, k + 1)

\* _find_grid_factors(length, height, width).  A length without factors gets
\* rows = int(sqrt(length * aspect_ratio)) and cols = ceil(length / rows),
\* which divides by zero when rows is 0.
FindGridFactors(length, height, width) ==
    IF FactorPairsFrom(length, 2) = << >>
    THEN LET rows == IntSqrtFrom((length * height) \div width, 0)
         IN  IF rows = 0 THEN [raised |-> "ZeroDivisionError"]
             ELSE [raised |-> "none",
                   ret |-> <<rows, (length + rows - 1) \div rows>>]
    ELSE [raised |-> "none",
          ret |-> BestFactorsFrom(FactorPairsFrom(length, 2), Frac(height, width),
                                  FactorPairsFrom(length, 2)[1], 1)]

\* fold_to_2d(sequence, rows, cols): a grid of zeros in which entry i of the
\* sequence (counted from 0, and cut to rows * cols entries) is written to
\* cell (i % rows, i % cols); a cell written more than once keeps the last
\* write.
FoldTo2d(sequence, rows, cols) ==
    LET written == IF rows * cols < Len(sequence) THEN rows * cols ELSE Len(sequence)
        IndicesAt(r, c) == {i \in 0..(written - 1) : i % rows = r /\ i % cols = c}
    IN  [r \in 0..(rows - 1) |->
            [c \in 0..(cols - 1) |->
                IF IndicesAt(r, c) = {} THEN 0
                ELSE sequence[1 + CHOOSE i \in IndicesAt(r, c) :
                                      \A j \in IndicesAt(r, c) : j <= i]]]

\* The number of ones of a sequence of bits.
SumOf(sequence) == Cardinality({i \in 1..Len(sequence) : sequence[i] = 1})

\* design_panel(panel_width_mm, panel_height_mm, preferred_element_width_mm,
\* layout, seed) for positive whole numbers of millimetres.
DesignPanel(panel_width_mm, panel_height_mm, preferred_element_width_mm, layout, seed) ==
    LET order == FindOptimalOrder(panel_width_mm \div preferred_element_width_mm)
        length == 2^order - 1
        factors == FindGridFactors(length, panel_height_mm, panel_width_mm)
    IN  Only({
          IF layout = "grid_2d" /\ factors.raised # "none"
          THEN [raised |-> factors.raised]
          ELSE [raised |-> "none",
                ret |-> [sequence |-> sequence, order |-> order, length |-> length,
                         layout_type |-> layout,
                         num_slats |-> SumOf(sequence),
                         num_gaps |-> length - SumOf(sequence),
                         grid |-> IF layout = "grid_2d" /\ factors.ret[1] > 1
                                      /\ factors.ret[2] > 1
                                  THEN FoldTo2d(sequence, factors.ret[1], factors.ret[2])
                                  ELSE None,
                         grid_rows |-> IF layout = "grid_2d" /\ factors.ret[1] > 1
                                           /\ factors.ret[2] > 1
                                       THEN factors.ret[1] ELSE 0,
                         grid_cols |-> IF layout = "grid_2d" /\ factors.ret[1] > 1
                                           /\ factors.ret[2] > 1
                                       THEN factors.ret[2] ELSE 0]]
          : sequence \in {GenerateMls(order, seed).ret}})

PanelWidthInputs == {350, 750, 3150, 12750}
PanelHeightInputs == {40, 450, 600, 2450}
PanelLayoutInputs == {"horizontal_1d", "vertical_1d", "grid_2d"}
PanelSeedInputs == {PyInt(0), PyInt(1), PyInt(5)}
PreferredElementWidth == 50

\* gen.design_panel(panel_width_mm, panel_height_mm, 50, layout, seed); one
\* call per generator constructed, as for generate_mls.
CallDesignPanel ==
    /\ mlsRet.op = "__init__"
    /\ \E panel_width_mm \in PanelWidthInputs, panel_height_mm \in PanelHeightInputs,
          layout \in PanelLayoutInputs, seed \in PanelSeedInputs :
        \E result \in {DesignPanel(panel_width_mm, panel_height_mm,
                                   PreferredElementWidth, layout, seed)} :
            /\ mlsRet' = [op |-> "design_panel", panel_width_mm |-> panel_width_mm,
                          panel_height_mm |-> panel_height_mm, layout |-> layout,
                          seed |-> seed, raised |-> result.raised,
                          ret |-> IF result.raised = "none" THEN result.ret ELSE << >>]
            /\ UNCHANGED notMls

MlsOrderInputs == 2..11
\* Seeds: none, zero, small ones, negative ones, and ones wider than a register.
MlsSeedInputs ==
    {None} \cup {PyInt(n) : n \in {0, 1, 2, 5, 6, 100, 1023, 1024, 1029, 4096, -1, -2, -1024}}

\* MLSGenerator()
NewMLSGenerator ==
    /\ mlsRet' = [op |-> "__init__"]
    /\ UNCHANGED notMls

\* gen.generate_mls(order, seed).  The generator keeps nothing but the table,
\* so no call depends on an earlier one: each generator constructed makes one
\* call.
CallGenerateMls ==
    /\ mlsRet.op = "__init__"
    /\ \E order \in MlsOrderInputs, seed \in MlsSeedInputs :
        /\ mlsRet' = [op |-> "generate_mls", order |-> order, seed |-> seed,
                      raised |-> GenerateMls(order, seed).raised,
                      ret |-> IF GenerateMls(order, seed).raised = "none"
                              THEN GenerateMls(order, seed).ret ELSE << >>]
        /\ UNCHANGED notMls

\* get_all_mls_orders()
CallGetAllMlsOrders ==
    /\ mlsRet.op = "__init__"
    /\ mlsRet' = [op |-> "get_all_mls_orders", ret |-> GetAllMlsOrders]
    /\ UNCHANGED notMls

MlsInit == mlsRet = [op |-> "__init__"]

MlsNext == NewMLSGenerator \/ CallGenerateMls \/ CallGetAllMlsOrders \/ CallDesignPanel

\* No MLSGenerator is in use.
MlsIdle == mlsRet = [op |-> "idle"]

(***************************************************************************)
(* ProjectManager (core/projects.py)                                       *)
(*                                                                         *)
(* _projects is a dict in insertion order: a sequence of Project records   *)
(* with distinct ids.  The data file holds what json.dump wrote: a list of *)
(* dicts, each a function from its keys.  Volumes are in hundredths of a   *)
(* cubic metre; the values carried are strings, integers, None and dicts   *)
(* of them, which json writes and reads back unchanged.                    *)
(***************************************************************************)
\* The fields of the dataclass Project; id and name have no default.
ProjectFields ==
    {"id", "name", "description", "room_type", "geometry", "tags", "notes",
     "created_at", "updated_at"}

ProjectDefaults ==
    [description |-> "", room_type |-> "mixing_mastering", geometry |-> None,
     tags |-> << >>, notes |-> "", created_at |-> "", updated_at |-> ""]

\* Project.volume: geometry.get('volume') for a geometry that is not None.
ProjectVolume(p) ==
    IF p.geometry = None THEN None
    ELSE IF "volume" \in DOMAIN p.geometry THEN PyInt(p.geometry.volume)
    ELSE None

\* Project.to_dict: the nine fields and the volume property.
ToDict(p) ==
    [id |-> p.id, name |-> p.name, description |-> p.description,
     room_type |-> p.room_type, geometry |-> p.geometry, tags |-> p.tags,
     notes |-> p.notes, volume |-> ProjectVolume(p), created_at |-> p.created_at,
     updated_at |-> p.updated_at]

\* Project(**pd): TypeError for a key that is no field and for a missing id
\* or name; a missing field takes its default.
NewProject(pd) ==
    IF ~(DOMAIN pd \subseteq ProjectFields) \/ ~({"id", "name"} \subseteq DOMAIN pd)
    THEN [raised |-> "TypeError"]
    ELSE [raised |-> "none",
          ret |-> [k \in ProjectFields |->
                      IF k \in DOMAIN pd THEN pd[k] ELSE ProjectDefaults[k]]]

\* self._projects[p.id] = p: in place for an id already held, else at the end.
Put(projects, p) ==
    IF \E i \in 1..Len(projects) : projects[i].id = p.id
    THEN [i \in 1..Len(projects) |-> IF projects[i].id = p.id THEN p ELSE projects[i]]
    ELSE Append(projects, p)

\* The loop of _load over the file's list: the first exception ends it, and
\* "except Exception: pass" keeps what was loaded before.
RECURSIVE LoadFrom(_, _, _)
LoadFrom(data, projects, i) ==
    IF i > Len(data) THEN projects
    ELSE IF NewProject(data[i]).raised # "none" THEN projects
    ELSE LoadFrom(data, Put(projects, NewProject(data[i]).ret), i + 1)

\* _load: nothing without a file.
Load(file) == IF file.exists THEN LoadFrom(file.data, << >>, 1) ELSE << >>

\* _save: the file is rewritten with the dicts of all projects held.
Save(projects) ==
    [exists |-> TRUE, data |-> [i \in 1..Len(projects) |-> ToDict(projects[i])]]

\* The project _seed creates, at time now.
SeedProject(now) ==
    [id |-> "seans-studio", name |-> "Sean's Studio",
     description |-> "Mixing and mastering room",
     room_type |-> "mixing_mastering",
     geometry |-> [volume |-> 2865],
     tags |-> <<"mixing", "mastering", "asymmetric", "sloped-ceiling">>,
     notes |-> "Asymmetric room", created_at |-> now, updated_at |-> now]

\* ProjectManager(): load, then seed and save when nothing was loaded.
Construct(file, now) ==
    IF Load(file) = << >>
    THEN [projects |-> <<SeedProject(now)>>, file |-> Save(<<SeedProject(now)>>)]
    ELSE [projects |-> Load(file), file |-> file]

\* The position of the project with this id, 0 when there is none.
IndexOfProject(projects, project_id) ==
    IF \E i \in 1..Len(projects) : projects[i].id = project_id
    THEN CHOOSE i \in 1..Len(projects) : projects[i].id = project_id
    ELSE 0

\* The loop of update over the six keys that may be set.
Updated(p, updates, now) ==
    [k \in ProjectFields |->
        IF k = "updated_at" THEN now
        ELSE IF k \in {"name", "description", "room_type", "geometry", "tags", "notes"}
                /\ k \in DOMAIN updates
             THEN updates[k]
             ELSE p[k]]

MaxProjects == 2
UtcNow == {"2024-01-01T00:00:00", "2024-06-01T12:00:00"}
UuidPrefixes == {"0a1b2c3d", "4e5f6a7b"}
ProjectNames == {"Room A", "Room B"}
GeometryInputs == {None, [volume |-> 3000], [length |-> 4]}
UpdateInputs ==
    {[name |-> "Room B"], [geometry |-> [volume |-> 3000]], [notes |-> "treated", id |-> "x"]}
ProjectIdInputs == UuidPrefixes \cup {"seans-studio"}

\* ProjectManager() over the data file as it is: a restart of the program.
NewProjectManager ==
    \E now \in UtcNow :
        /\ pm' = Construct(disk, now).projects
        /\ disk' = Construct(disk, now).file
        /\ pmRet' = [op |-> "__init__"]
        /\ UNCHANGED notPm

\* pm.create(name, geometry=geometry); uuid4 gives an id not yet held.
CallCreate ==
    /\ Len(pm) < MaxProjects
    /\ \E name \in ProjectNames, geometry \in GeometryInputs, now \in UtcNow,
          pid \in UuidPrefixes :
        /\ IndexOfProject(pm, pid) = 0
        /\ \E p \in {[ProjectDefaults EXCEPT !.geometry = geometry,
                         !.created_at = now, !.updated_at = now]
                        @@ [id |-> pid, name |-> name]} :
            /\ pm' = Put(pm, p)
            /\ disk' = Save(Put(pm, p))
            /\ pmRet' = [op |-> "create", ret |-> p]
        /\ UNCHANGED notPm

\* pm.update(project_id, updates)
CallUpdate ==
    \E project_id \in ProjectIdInputs, updates \in UpdateInputs, now \in UtcNow :
        /\ IF IndexOfProject(pm, project_id) = 0
           THEN /\ pmRet' = [op |-> "update", ret |-> None]
                /\ UNCHANGED <<pm, disk>>
           ELSE \E p \in {Updated(pm[IndexOfProject(pm, project_id)], updates, now)} :
                   /\ pm' = Put(pm, p)
                   /\ disk' = Save(Put(pm, p))
                   /\ pmRet' = [op |-> "update", ret |-> p]
        /\ UNCHANGED notPm

\* pm.delete(project_id)
CallDelete ==
    \E project_id \in ProjectIdInputs :
        /\ IF IndexOfProject(pm, project_id) = 0
           THEN /\ pmRet' = [op |-> "delete", ret |-> FALSE]
                /\ UNCHANGED <<pm, disk>>
           ELSE /\ pm' = SelectSeq(pm, LAMBDA p : p.id # project_id)
                /\ disk' = Save(SelectSeq(pm, LAMBDA p : p.id # project_id))
                /\ pmRet' = [op |-> "delete", ret |-> TRUE]
        /\ UNCHANGED notPm

\* The first ProjectManager(), in a data directory without projects.json.
PmInit ==
    \E now \in UtcNow :
        /\ pm = Construct([exists |-> FALSE], now).projects
        /\ disk = Construct([exists |-> FALSE], now).file
        /\ pmRet = [op |-> "__init__"]

PmNext == NewProjectManager \/ CallCreate \/ CallUpdate \/ CallDelete

\* No ProjectManager is in use.
PmIdle == pm = << >> /\ disk = [exists |-> FALSE] /\ pmRet = [op |-> "idle"]

(***************************************************************************)
(* Specifications: one per component; the components share no state, so    *)
(* each is explored on its own with the others idle.                       *)
(***************************************************************************)
ModesInit == RmcInit /\ AbcIdle /\ RaIdle /\ SaIdle /\ PacIdle /\ MlsIdle /\ PmIdle
ModesNext == RmcNext
SpecModes == ModesInit /\ [][ModesNext]_vars

AbsorptionInit == AbcInit /\ RmcIdle /\ RaIdle /\ SaIdle /\ PacIdle /\ MlsIdle /\ PmIdle
AbsorptionNext == AbcNext
SpecAbsorption == AbsorptionInit /\ [][AbsorptionNext]_vars

ReverbInit == RaInit /\ RmcIdle /\ AbcIdle /\ SaIdle /\ PacIdle /\ MlsIdle /\ PmIdle
ReverbNext == RaNext
SpecReverb == ReverbInit /\ [][ReverbNext]_vars

SchroederInit == SaInit /\ RmcIdle /\ AbcIdle /\ RaIdle /\ PacIdle /\ MlsIdle /\ PmIdle
SchroederNext == SaNext
SpecSchroeder == SchroederInit /\ [][SchroederNext]_vars

ModeQueriesInit == QueryInit /\ AbcIdle /\ RaIdle /\ SaIdle /\ PacIdle /\ MlsIdle /\ PmIdle
ModeQueriesNext == QueryNext
SpecModeQueries == ModeQueriesInit /\ [][ModeQueriesNext]_vars

PorousInit == PacInit /\ RmcIdle /\ AbcIdle /\ RaIdle /\ SaIdle /\ MlsIdle /\ PmIdle
PorousNext == PacNext
SpecPorous == PorousInit /\ [][PorousNext]_vars

PanelsInit == MlsInit /\ RmcIdle /\ AbcIdle /\ RaIdle /\ SaIdle /\ PacIdle /\ PmIdle
PanelsNext == MlsNext
SpecPanels == PanelsInit /\ [][PanelsNext]_vars

ProjectsInit == PmInit /\ RmcIdle /\ AbcIdle /\ RaIdle /\ SaIdle /\ PacIdle /\ MlsIdle
ProjectsNext == PmNext
SpecProjects == ProjectsInit /\ [][ProjectsNext]_vars

(***************************************************************************)
(* Properties of RoomModeCalculator                                        *)
(***************************************************************************)
PositiveDims(c) == c.length > 0 /\ c.width > 0 /\ c.height > 0

IndexTriples(max_mode_order) ==
    (0 .. max_mode_order) \X (0 .. max_mode_order) \X (0 .. max_mode_order)

\* The triples the contract asks for: in range, not (0,0,0), f <= max_frequency.
WantedTriples(c, max_frequency, max_mode_order) ==
    {t \in IndexTriples(max_mode_order) :
        /\ t # <<0, 0, 0>>
        /\ FreqLeq(c, FrequencySqNum(c, t[1], t[2], t[3]), max_frequency)}

ModeTriples(ms) == {<<ms[i].p, ms[i].q, ms[i].r>> : i \in 1 .. Len(ms)}

ReturnedModes == rmcRet.op = "calculate_all_modes" /\ rmcRet.raised = "none"

\* C1: with positive dimensions, calculate_all_modes returns exactly one mode
\* for each index triple within max_mode_order, other than (0,0,0), whose
\* Rayleigh frequency is <= max_frequency, each carrying that frequency, and
\* no other mode.
C1_ExactlyTheModesBelowCeiling ==
    (rmcRet.op = "calculate_all_modes" /\ PositiveDims(rmc)) =>
        LET wanted == WantedTriples(rmc, rmcRet.max_frequency, rmcRet.max_mode_order)
            ms == rmcRet.modes
        IN  /\ rmcRet.raised = "none"
            /\ ModeTriples(ms) = wanted
            /\ Len(ms) = Cardinality(wanted)
            /\ <<0, 0, 0>> \notin ModeTriples(ms)
            /\ \A i \in 1 .. Len(ms) :
                   ms[i].frequency = FrequencySqNum(rmc, ms[i].p, ms[i].q, ms[i].r)
            /\ rmc.modes = ms

\* A call where both limits bite: some triple is cut by the frequency ceiling
\* and a mode of the highest allowed order is returned.
C1_Witness ==
    /\ ReturnedModes /\ PositiveDims(rmc)
    /\ Len(rmcRet.modes) > 0
    /\ Len(rmcRet.modes) < Cardinality(IndexTriples(rmcRet.max_mode_order)) - 1
    /\ \E i \in 1 .. Len(rmcRet.modes) : rmcRet.modes[i].p = rmcRet.max_mode_order

NonZeroCount(p, q, r) == Cardinality({i \in 1 .. 3 : <<p, q, r>>[i] # 0})

\* C2: every returned mode is axial iff exactly one index is non-zero,
\* tangential iff exactly two are, oblique iff all three are.
C2_ModeTypeByNonZeroIndices ==
    ReturnedModes =>
        \A i \in 1 .. Len(rmcRet.modes) :
            LET m == rmcRet.modes[i]
                k == NonZeroCount(m.p, m.q, m.r)
            IN  /\ (m.mode_type = "axial") <=> (k = 1)
                /\ (m.mode_type = "tangential") <=> (k = 2)
                /\ (m.mode_type = "oblique") <=> (k = 3)

\* (1,0,0), (1,1,0) and (1,1,1) are all returned, one of each type.
C2_Witness ==
    /\ ReturnedModes
    /\ \E i, j, k \in 1 .. Len(rmcRet.modes) :
          /\ <<rmcRet.modes[i].p, rmcRet.modes[i].q, rmcRet.modes[i].r>> = <<1, 0, 0>>
          /\ rmcRet.modes[i].mode_type = "axial"
          /\ <<rmcRet.modes[j].p, rmcRet.modes[j].q, rmcRet.modes[j].r>> = <<1, 1, 0>>
          /\ rmcRet.modes[j].mode_type = "tangential"
          /\ <<rmcRet.modes[k].p, rmcRet.modes[k].q, rmcRet.modes[k].r>> = <<1, 1, 1>>
          /\ rmcRet.modes[k].mode_type = "oblique"

\* C10: a RoomModeCalculator with a non-positive dimension never exists: the
\* constructor rejects it, so nothing is ever computed from one.
C10_NonPositiveDimensionRejected == PositiveDims(rmc)

(***************************************************************************)
(* Properties of AbsorptionCalculator                                      *)
(***************************************************************************)
SabineK(c) == IF c.use_metric THEN 161 ELSE 49

\* The band's average coefficient, total absorption over surface area, is
\* strictly above 0.2 (absorption in 1/10^4, area in 1/10^2).
AlphaAboveFifth(c, frequency) ==
    5 * CalculateTotalAbsorption(c, frequency) > 100 * AbcSurfaceArea(c)

AlphaIsFifth(c, frequency) ==
    5 * CalculateTotalAbsorption(c, frequency) = 100 * AbcSurfaceArea(c)

C4_RequiredAndMissingAbsorption ==
    (abcRet.op = "analyze" /\ abcRet.target_t60 > 0 /\ AbcSurfaceArea(abc) > 0) =>
        /\ abcRet.ret.raised = "none"
        /\ \A f \in FreqSet :
            LET t == abcRet.target_t60
                A == CalculateTotalAbsorption(abc, f)
                \* required - current over the denominator 10^4 * t
                gap == 10 * SabineK(abc) * AbcVolume(abc) - A * t
                missing == abcRet.ret.missing_absorption[f]
            IN  /\ abcRet.ret.required_absorption[f]
                       = Frac(SabineK(abc) * AbcVolume(abc), 1000 * t)
                /\ abcRet.ret.required_absorption[f]
                       = abcRet.ret.required_absorption[125]
                /\ abcRet.ret.current_absorption[f] = A
                /\ missing = (IF gap > 0 THEN Frac(gap, 10000 * t) ELSE FracZero)
                /\ missing.n >= 0 /\ missing.d > 0
                /\ (missing.n = 0) <=> (gap <= 0)

\* One analysis with an Eyring band that needs nothing more and a Sabine band
\* that is short of absorption.
C4_Witness ==
    /\ abcRet.op = "analyze" /\ abcRet.target_t60 > 0 /\ AbcSurfaceArea(abc) > 0
    /\ \E f, g \in FreqSet :
          /\ abcRet.ret.current_t60[f].form = "eyring"
          /\ abcRet.ret.missing_absorption[f].n = 0
          /\ abcRet.ret.current_t60[g].form = "sabine"
          /\ abcRet.ret.missing_absorption[g].n > 0

(***************************************************************************)
(* Properties of ReverberationAnalyzer                                     *)
(***************************************************************************)
\* The curve the last call worked on, << >> when it had none.
LastCurve ==
    IF raRet.op = "calculate_decay_time" THEN raRet.decay_curve
    ELSE IF raRet.op = "schroeder_integration" /\ raRet.ret.raised = "none"
    THEN raRet.ret.decay_db
    ELSE IF raRet.op = "analyze_impulse_response" /\ raRet.ret.raised = "none"
    THEN raRet.ret.decay_curve
    ELSE << >>

Reaches(curve, db) == \E i \in 1 .. Len(curve) : LevelLeqDb(curve[i], db)

\* The smallest 0-based index i with curve[i] <= db (for a curve that reaches db).
FirstIndex(curve, db) ==
    (CHOOSE i \in 1 .. Len(curve) :
        /\ LevelLeqDb(curve[i], db)
        /\ \A j \in 1 .. i - 1 : ~LevelLeqDb(curve[j], db)) - 1

NonIncreasing(curve) ==
    \A i \in 1 .. Len(curve) - 1 : LevelLeq(curve[i + 1], curve[i])

\* The claimed value ((end_idx - start_idx)/sample_rate) * 60/|end_db - start_db|.
DecayTimeFormula(sample_rate, curve, start_db, end_db) ==
    [kind |-> "value",
     value |-> FracMul(Frac(FirstIndex(curve, end_db) - FirstIndex(curve, start_db),
                            sample_rate),
                       Frac(60, Abs(end_db - start_db)))]

DecayTimeClaim(rel(_, _)) ==
    (/\ raRet.op = "calculate_decay_time"
     /\ Reaches(raRet.decay_curve, raRet.start_db)
     /\ Reaches(raRet.decay_curve, raRet.end_db)
     /\ rel(raRet.end_db, raRet.start_db)) =>
        /\ raRet.ret.kind = "value"
        /\ raRet.ret = DecayTimeFormula(ra.sample_rate, raRet.decay_curve,
                                        raRet.start_db, raRet.end_db)
        /\ NonIncreasing(raRet.decay_curve) =>
               /\ FirstIndex(raRet.decay_curve, raRet.start_db)
                      <= FirstIndex(raRet.decay_curve, raRet.end_db)
               /\ raRet.ret.value.n >= 0

EndIndexOrder ==
    (Reaches(LastCurve, -25) /\ Reaches(LastCurve, -35)) =>
        FirstIndex(LastCurve, -25) <= FirstIndex(LastCurve, -35)

\* C5 as stated: when both thresholds are reached, calculate_decay_time
\* returns ((end_idx - start_idx)/sample_rate) * 60/|end_db - start_db| for
\* the smallest indices at or below each threshold; for a non-increasing
\* curve and end_db <= start_db, start_idx <= end_idx and the result is >= 0;
\* and T20's end index never exceeds T30's.
C5_DecayTimeAsStated ==
    DecayTimeClaim(LAMBDA e, s : e <= s) /\ EndIndexOrder

\* C5 amended: the same for end_db < start_db.  (For end_db = start_db the
\* indices coincide and 60/|end_db - start_db| raises ZeroDivisionError.)
C5_DecayTimeBelowStart ==
    DecayTimeClaim(LAMBDA e, s : e < s) /\ EndIndexOrder

\* A non-increasing curve whose start and end thresholds are reached at
\* different samples.
C5_Witness ==
    /\ raRet.op = "calculate_decay_time" /\ NonIncreasing(raRet.decay_curve)
    /\ raRet.end_db < raRet.start_db
    /\ raRet.ret.kind = "value" /\ raRet.ret.value.n > 0

AnalysisDone == raRet.op = "analyze_impulse_response" /\ raRet.ret.raised = "none"

Undefined(metric, curve, start_db, end_db) ==
    (metric = NaN) <=> (~Reaches(curve, start_db) \/ ~Reaches(curve, end_db))

\* C6: in analyze_impulse_response each of T30 (-5, -35), T20 (-5, -25) and
\* EDT (0, -10) is NaN iff the decay curve never gets to its start or to its
\* end threshold, independently of the other metrics, and T60 is T30.
C6_NaNIffThresholdNotReached ==
    AnalysisDone =>
        /\ Undefined(raRet.ret.t30, raRet.ret.decay_curve, -5, -35)
        /\ Undefined(raRet.ret.t20, raRet.ret.decay_curve, -5, -25)
        /\ Undefined(raRet.ret.edt, raRet.ret.decay_curve, 0, -10)
        /\ raRet.ret.t60 = raRet.ret.t30

\* The curve gets to -25 dB but not to -35 dB: T20 is defined, T30 and T60 are NaN.
C6_Witness ==
    /\ AnalysisDone
    /\ raRet.ret.t20.kind = "value" /\ raRet.ret.edt.kind = "value"
    /\ raRet.ret.t30 = NaN /\ raRet.ret.t60 = NaN

\* C7: the reported EDT is the 0 dB to -10 dB decay time projected to 60 dB
\* once: EDT = 6 * (idx10 - idx0) / sample_rate.
C7_EdtProjectedOnce ==
    (AnalysisDone /\ Reaches(raRet.ret.decay_curve, 0)
                  /\ Reaches(raRet.ret.decay_curve, -10)) =>
        raRet.ret.edt =
            [kind |-> "value",
             value |-> Frac(6 * (FirstIndex(raRet.ret.decay_curve, -10)
                                 - FirstIndex(raRet.ret.decay_curve, 0)),
                            ra.sample_rate)]

NonZeroEnergy(ir) == \E i \in 1 .. Len(ir) : ir[i] # 0

\* C8: for an impulse response with non-zero energy the Schroeder curve starts
\* at exactly 0 dB and never rises: curve[i+1] <= curve[i] <= 0 dB; a sample
\* after which no energy is left is at the 1e-20 floor, not at -infinity or NaN.
C8_DecayCurveFromZeroNonIncreasing ==
    ((raRet.op = "schroeder_integration" \/ raRet.op = "analyze_impulse_response")
         /\ NonZeroEnergy(raRet.impulse_response)) =>
        LET ir == raRet.impulse_response
            curve == LastCurve
        IN  /\ raRet.ret.raised = "none"
            /\ Len(curve) = Len(ir)
            /\ curve[1] = ZeroDb
            /\ \A i \in 1 .. Len(curve) : LevelLeqDb(curve[i], 0)
            /\ NonIncreasing(curve)
            /\ \A i \in 1 .. Len(curve) :
                   (curve[i] = FloorLevel) <=> (\A j \in i .. Len(ir) : ir[j] = 0)

\* A curve that falls from 0 dB to the floor: energy, then silence.
C8_Witness ==
    /\ raRet.op = "schroeder_integration" /\ NonZeroEnergy(raRet.impulse_response)
    /\ Len(LastCurve) >= 2
    /\ LastCurve[1] = ZeroDb
    /\ LastCurve[Len(LastCurve)] = FloorLevel

\* C12: given a zero-length impulse response, analyze_impulse_response and
\* analyze_by_frequency_bands both report an error to the caller; neither
\* returns a result, an empty result map, or metrics.
C12_EmptyImpulseResponseRejected ==
    ((raRet.op = "analyze_impulse_response" \/ raRet.op = "analyze_by_frequency_bands")
         /\ raRet.impulse_response = << >>) =>
        raRet.ret.raised # "none"

(***************************************************************************)
(* Properties of SchroederAnalyzer                                         *)
(***************************************************************************)
FrequencyReturned == saRet.op = "calculate_schroeder_frequency"

\* The constructed room's volume in cubic metres: ft^3 times 0.0283168.
VolumeInCubicMetres(args) ==
    IF args.use_metric THEN args.volume
    ELSE Frac(args.volume.n * 8849, args.volume.d * 312500)

\* f^2 = 4,000,000 * x for f = scale * sqrt(sqrt_of).
SquareIs4000000Times(f, x) ==
    /\ f.kind = "value"
    /\ f.scale * f.scale = 4000000
    /\ f.sqrt_of.n * x.d = x.n * f.sqrt_of.d

\* f is the rational number x.
IsExactly(f, x) ==
    /\ f.kind = "value"
    /\ \E k \in 0 .. 100, m \in 1 .. 100 :
           /\ f.sqrt_of = Frac(k * k, m * m)
           /\ Frac(f.scale * k, m) = x

\* C9: calculate_schroeder_frequency returns f_c with f_c^2 = 4,000,000*T60/V,
\* V the volume in m^3 (ft^3 times 0.0283168 when use_metric is False), for a
\* room of positive volume and non-negative T60; V = 30 m^3 and T60 = 0.3 s
\* give exactly 200 Hz; and a room entered in ft^3 gets the f_c of the same
\* room entered in m^3.
C9_SchroederFrequencyFormula ==
    (FrequencyReturned /\ saArgs.volume.n > 0 /\ saArgs.t60.n >= 0) =>
        LET V == VolumeInCubicMetres(saArgs)
        IN  /\ SquareIs4000000Times(saRet.ret, Frac(saArgs.t60.n * V.d,
                                                    saArgs.t60.d * V.n))
            /\ (saArgs.use_metric /\ saArgs.volume = Frac(30, 1)
                    /\ saArgs.t60 = Frac(3, 10)) =>
                   IsExactly(saRet.ret, Frac(200, 1))
            /\ saRet.ret = CalculateSchroederFrequency(
                               SchroederAnalyzerInit(V, saArgs.t60, TRUE))

\* The room of 312.5 ft^3 got the Schroeder frequency of the room of 8.849 m^3.
C9_Witness ==
    /\ FrequencyReturned
    /\ ~saArgs.use_metric /\ saArgs.volume = Frac(625, 2) /\ saArgs.t60 = Frac(3, 10)
    /\ saRet.ret = CalculateSchroederFrequency(
                       SchroederAnalyzerInit(Frac(8849, 1000), Frac(3, 10), TRUE))
    /\ saRet.ret.kind = "value"

(***************************************************************************)
(* Properties of PorousAbsorberCalculator                                  *)
(***************************************************************************)
InvalidPorousInput ==
    \/ pacRet.thickness_mm <= 0
    \/ pacRet.flow_resistivity <= 0
    \/ pacRet.air_gap_mm < 0
    \/ pacRet.model \notin {"delany_bazley", "miki"}

\* C11: calculate answers a thickness_mm <= 0, a flow_resistivity <= 0, a
\* negative air_gap_mm or a model name other than 'delany_bazley' and 'miki'
\* with an invalid-input error, never with a PorousAbsorberResult.
C11_InvalidPorousInputRejected ==
    (pacRet.op = "calculate" /\ InvalidPorousInput) =>
        pacRet.ret.kind # "PorousAbsorberResult"

(***************************************************************************)
(* Properties of the RoomModeCalculator queries                            *)
(***************************************************************************)
\* A newly constructed calculator of the same geometry.
Fresh(self) == [self EXCEPT !.modes = << >>]

\* The call that returned last, made on the calculator self.
SameCallOn(self) ==
    IF rmcRet.op = "bonello_analysis"
    THEN BonelloAnalysis(self, rmcRet.max_frequency)
    ELSE IF rmcRet.op = "get_axial_modes"
    THEN GetAxialModes(self, rmcRet.max_frequency)
    ELSE GetModesInBand(self, ExactBound(rmcRet.low_freq),
                        ExactBound(rmcRet.high_freq))

\* C13: after any earlier calls on the instance, bonello_analysis,
\* get_axial_modes and get_modes_in_band return what the same call returns
\* on a freshly constructed instance of the same geometry.
C13_QueriesIgnoreCallHistory ==
    rmcRet.op \in {"bonello_analysis", "get_axial_modes", "get_modes_in_band"} =>
        \E fresh \in {SameCallOn(Fresh(rmc))} :
            /\ fresh.raised = rmcRet.raised
            /\ fresh.ret = rmcRet.ret

\* bonello_analysis returned a result.
BonelloReturned == rmcRet.op = "bonello_analysis" /\ rmcRet.raised = "none"

\* The count of band k of the returned analysis is below the count of the
\* band before it, which is not empty.
CountDecreasesAt(k) ==
    /\ k > 1
    /\ rmcRet.ret.band_analysis[k - 1].mode_count > 0
    /\ rmcRet.ret.band_analysis[k].mode_count
           < rmcRet.ret.band_analysis[k - 1].mode_count

DecreasingBands == {k \in 1 .. Len(rmcRet.ret.band_analysis) : CountDecreasesAt(k)}

WithAllModes(self) ==
    StoreAllModes(Fresh(self), DEFAULT_MAX_FREQUENCY, DEFAULT_MAX_MODE_ORDER).self

\* C15: in the result of bonello_analysis(max_frequency) the mode_count of
\* every analysed band, the highest one included, is the number of the
\* room's modes between the band's edges centre/2^(1/6) and centre*2^(1/6).
C15_BandCountsAllModesInBand ==
    BonelloReturned =>
        \E room \in {WithAllModes(rmc)} :
            \A k \in 1 .. Len(rmcRet.ret.band_analysis) :
                rmcRet.ret.band_analysis[k].mode_count =
                    Len(ModesBetween(room,
                            LowerEdge(rmcRet.ret.band_analysis[k].center_frequency),
                            UpperEdge(rmcRet.ret.band_analysis[k].center_frequency)))

\* Band k of the returned analysis lists the mode m.
ListedInBand(k, m) ==
    \E i \in 1 .. Len(rmcRet.ret.band_analysis[k].modes) :
        rmcRet.ret.band_analysis[k].modes[i] = ModeString(m)

\* The mode lies between the lower edge of the lowest band and the upper
\* edge of the highest analysed band.
InAnalysedRange(m) ==
    /\ BoundLeqFreq(LowerEdge(BAND_CENTERS[1]), m.frequency, FrequencySqDen(rmc))
    /\ FreqLeqBound(UpperEdge(BAND_CENTERS[Len(rmcRet.ret.band_analysis)]),
                    m.frequency, FrequencySqDen(rmc))

\* C16: the Bonello bands partition the analysed range: every mode between
\* the lowest band's lower edge and the highest band's upper edge is counted
\* in exactly one band, never in two and never in none.
C16_BandsPartitionRange ==
    (BonelloReturned /\ rmcRet.ret.band_analysis # << >>) =>
        \A i \in 1 .. Len(rmc.modes) :
            InAnalysedRange(rmc.modes[i]) =>
                Cardinality({k \in 1 .. Len(rmcRet.ret.band_analysis) :
                                 ListedInBand(k, rmc.modes[i])}) = 1

\* The per-band mode counts of a bonello_analysis result.
BandCounts(ret) == [k \in 1 .. Len(ret.band_analysis) |-> ret.band_analysis[k].mode_count]

\* C17: bonello_analysis called again on the same calculator with the same
\* max_frequency returns the same passes_bonello, the same problem_bands and
\* the same per-band mode counts, and leaves the stored mode list unchanged.
C17_BonelloIdempotent ==
    BonelloReturned =>
        \E again \in {BonelloAnalysis(rmc, rmcRet.max_frequency)} :
            /\ again.raised = "none"
            /\ again.ret.passes_bonello = rmcRet.ret.passes_bonello
            /\ again.ret.problem_bands = rmcRet.ret.problem_bands
            /\ BandCounts(again.ret) = BandCounts(rmcRet.ret)
            /\ again.self.modes = rmc.modes

\* bonello_analysis(100) returned for a room with a mode between 100 Hz and
\* the upper edge of the 100 Hz band, which the stored list does not hold.
C17_Witness ==
    /\ BonelloReturned
    /\ rmcRet.max_frequency = 100
    /\ rmc.modes # << >>
    /\ rmcRet.ret.band_analysis[8].mode_count = 0
    /\ Len(ModesBetween(WithAllModes(rmc), LowerEdge(BAND_CENTERS[8]),
                        UpperEdge(BAND_CENTERS[8]))) = 1

\* analyze_mode_spacing returned its analysis (not the error dict).
SpacingAnalysed ==
    /\ rmcRet.op = "analyze_mode_spacing" /\ rmcRet.raised = "none"
    /\ "clusters" \in DOMAIN rmcRet.ret

\* The clusters (by index in the returned list) that cover position i of
\* the stored, sorted mode list.  The clusters are runs of that list, in its
\* order: cluster c covers the positions after those of the clusters before
\* it that hold its frequencies.
RECURSIVE ClusterStart(_, _)
ClusterStart(c, from) ==
    IF /\ from + rmcRet.ret.clusters[c].count - 1 <= Len(rmc.modes)
       /\ \A n \in 1 .. rmcRet.ret.clusters[c].count :
              rmc.modes[from + n - 1].frequency = rmcRet.ret.clusters[c].frequencies[n]
    THEN from
    ELSE ClusterStart(c, from + 1)

RECURSIVE ClusterFirst(_)
ClusterFirst(c) ==
    ClusterStart(c, IF c = 1 THEN 1
                    ELSE ClusterFirst(c - 1) + rmcRet.ret.clusters[c - 1].count)

ClustersOf(i) ==
    {c \in 1 .. Len(rmcRet.ret.clusters) :
        /\ ClusterFirst(c) <= i
        /\ i < ClusterFirst(c) + rmcRet.ret.clusters[c].count}

\* C18: any two modes adjacent in the sorted list and at most 5 Hz apart are
\* members of the same cluster, and every mode belongs to at most one cluster.
C18_AdjacentCloseModesShareCluster ==
    SpacingAnalysed =>
        /\ \A i \in 1 .. Len(rmc.modes) : Cardinality(ClustersOf(i)) <= 1
        /\ \A i \in 1 .. Len(rmc.modes) - 1 :
               Within5Hz(rmc.modes[i].frequency, rmc.modes[i + 1].frequency,
                         FrequencySqDen(rmc)) =>
                   \E c \in ClustersOf(i) : c \in ClustersOf(i + 1)

\* C19: the problem_frequencies list of analyze_mode_spacing holds the
\* centre of every cluster of the returned clusters list (every cluster has
\* size >= 2), exactly one entry for each.
C19_ProblemFrequencyPerCluster ==
    SpacingAnalysed =>
        /\ \A k \in 1 .. Len(rmcRet.ret.clusters) : rmcRet.ret.clusters[k].count >= 2
        /\ rmcRet.ret.problem_frequencies =
               [k \in 1 .. Len(rmcRet.ret.clusters) |-> rmcRet.ret.clusters[k].center]

\* get_problematic_frequencies returned its list.
ProblemsReturned ==
    rmcRet.op = "get_problematic_frequencies" /\ rmcRet.raised = "none"

\* The entries of the returned list of one type, in the list's order.
ProblemsOfType(type) == SelectSeq(rmcRet.ret, LAMBDA e : e.type = type)

\* The number of 'axial_near_note' entries for the mode m and the note b.
NoteEntries(m, b) ==
    Cardinality({k \in 1 .. Len(rmcRet.ret) :
        /\ rmcRet.ret[k].type = "axial_near_note"
        /\ rmcRet.ret[k].mode = ModeString(m)
        /\ rmcRet.ret[k].note = b.note})

\* The clusters analyze_mode_spacing reports for the stored mode list.
ClustersReported ==
    LET ret == AnalyzeModeSpacing(rmc).ret
    IN  IF "clusters" \in DOMAIN ret THEN ret.clusters ELSE << >>

\* C20: get_problematic_frequencies returns (i) an 'axial_near_note' entry of
\* severity 'high' for an axial mode and one of the 12 bass notes exactly
\* when the mode is within 3 Hz of the note, and none for a tangential or
\* oblique mode, and (ii) one 'cluster' entry for every cluster of >= 2
\* modes, of severity 'high' iff the cluster has >= 3 modes, else 'medium'.
C20_ProblematicFrequencies ==
    ProblemsReturned =>
        /\ \A k \in 1 .. Len(rmcRet.ret) :
               rmcRet.ret[k].type \in {"axial_near_note", "cluster"}
        /\ \A i \in 1 .. Len(rmc.modes) : \A n \in 1 .. Len(BASS_NOTES) :
               NoteEntries(rmc.modes[i], BASS_NOTES[n]) =
                   IF /\ rmc.modes[i].mode_type = "axial"
                      /\ NearNote(rmc.modes[i].frequency, FrequencySqDen(rmc),
                                  BASS_NOTES[n].tenths)
                   THEN 1 ELSE 0
        /\ \A k \in 1 .. Len(ProblemsOfType("axial_near_note")) :
               /\ ProblemsOfType("axial_near_note")[k].severity = "high"
               /\ \E i \in 1 .. Len(rmc.modes) :
                      ProblemsOfType("axial_near_note")[k].mode = ModeString(rmc.modes[i])
        /\ \E clusters \in {ClustersReported} :
               /\ Len(ProblemsOfType("cluster")) = Len(clusters)
               /\ \A k \in 1 .. Len(clusters) :
                      /\ clusters[k].count >= 2
                      /\ ProblemsOfType("cluster")[k].modes = clusters[k].frequencies
                      /\ ProblemsOfType("cluster")[k].frequency = clusters[k].center
                      /\ ProblemsOfType("cluster")[k].severity =
                             IF clusters[k].count >= 3 THEN "high" ELSE "medium"

\* The list returned for the room 2.0 x 2.0 x 0.5 m: the axial modes (1,0,0)
\* and (0,1,0) are entered for F2, the tangential mode (1,1,0), 2.1 Hz below
\* B2, is not entered, and there are cluster entries.
C20_Witness ==
    /\ ProblemsReturned
    /\ rmc.length = 20 /\ rmc.width = 20
    /\ \E k \in 1 .. Len(rmcRet.ret) :
           /\ rmcRet.ret[k].type = "axial_near_note"
           /\ rmcRet.ret[k].mode = <<1, 0, 0>> /\ rmcRet.ret[k].note = "F2"
    /\ \E i \in 1 .. Len(rmc.modes) :
           /\ rmc.modes[i].mode_type = "tangential"
           /\ NearNote(rmc.modes[i].frequency, FrequencySqDen(rmc), 1235)
    /\ \E k \in 1 .. Len(rmcRet.ret) :
           rmcRet.ret[k].type = "cluster" /\ rmcRet.ret[k].severity = "medium"

(***************************************************************************)
(* Further properties of AbsorptionCalculator                              *)
(***************************************************************************)
\* The value calculate_t60 owes a band: +infinity when the band's total
\* absorption is zero, 0 when the Eyring formula is used with an average
\* coefficient >= 1.
IsInfinite(t60) == t60.raised = "none" /\ t60.form = "inf"

ZeroAbsorption(frequency) == CalculateTotalAbsorption(abc, frequency) = 0

\* C21: calculate_t60 returns +infinity whenever the band's total absorption
\* is zero (and the Eyring computation 0 whenever the average coefficient is
\* >= 1); analyze reports that value in current_t60 for the band, without an
\* exception, and reports the other bands too.
C21_ZeroAbsorptionGivesInfinity ==
    /\ (abcRet.op = "calculate_t60" /\ ZeroAbsorption(abcRet.frequency)) =>
           IsInfinite(abcRet.ret)
    /\ (abcRet.op = "analyze" /\ abcRet.target_t60 # 0) =>
           /\ abcRet.ret.raised = "none"
           /\ \A f \in FreqSet :
                  /\ ZeroAbsorption(f) => IsInfinite(abcRet.ret.current_t60[f])
                  /\ abcRet.ret.current_t60[f].raised = "none"
                  /\ abcRet.ret.current_t60[f].form = "zero" <=>
                         /\ EyringRegime(CalculateAverageAlpha(abc, f).value)
                         /\ FracLeq([n |-> 1, d |-> 1],
                                    CalculateAverageAlpha(abc, f).value)

\* analyze returned a result.
Analyzed == abcRet.op = "analyze" /\ abcRet.ret.raised = "none"

\* The mean of the missing absorption of two bands of the returned result.
MeanMissing(f, g) ==
    FracMul(FracAdd(abcRet.ret.missing_absorption[f],
                    abcRet.ret.missing_absorption[g]), Frac(1, 2))

BassDeficit == MeanMissing(125, 250)
MidDeficit == MeanMissing(500, 1000)
HighDeficit == MeanMissing(2000, 4000)

\* The item types the rule tree owes, in its order.
TypesOwed ==
    (IF FracLt(FracZero, BassDeficit) THEN <<"bass_trap">> ELSE << >>)
    \o (IF FracLt(FracZero, MidDeficit) THEN <<"broadband_absorber">> ELSE << >>)
    \o (IF FracLt(FracMul(Frac(3, 2), MidDeficit), HighDeficit)
        THEN <<"high_frequency_absorber">> ELSE << >>)

TypesEmitted ==
    [k \in 1 .. Len(abcRet.ret.recommended_treatment) |->
        abcRet.ret.recommended_treatment[k].type]

\* The bass deficit over the mean coefficient (0.80 + 1.00)/2 of the trap
\* material at 125 and 250 Hz.
BassTrapArea == FracDiv(BassDeficit, Frac(9, 10))

\* The area of the bass_trap item is area (a fraction), resp. its rounding
\* to one decimal.
BassTrapAreaIs(exact) ==
    \A k \in 1 .. Len(abcRet.ret.recommended_treatment) :
        abcRet.ret.recommended_treatment[k].type = "bass_trap" =>
            IF exact
            THEN Frac(abcRet.ret.recommended_treatment[k].area_needed, 10) = BassTrapArea
            ELSE abcRet.ret.recommended_treatment[k].area_needed = Round1(BassTrapArea)

\* C22 as stated: the items emitted are bass_trap iff bass > 0, broadband_absorber
\* iff mid > 0 and high_frequency_absorber iff high > 1.5 * mid, in that
\* order, at most one of each and nothing else; the bass trap's area is
\* bass / mean trap coefficient at 125 and 250.
C22_RuleTreeExactArea ==
    Analyzed => (TypesEmitted = TypesOwed /\ BassTrapAreaIs(TRUE))

\* C22: the same rule tree, the bass trap's area_needed being
\* bass / mean trap coefficient rounded to one decimal.
C22_RuleTreeRoundedArea ==
    Analyzed => (TypesEmitted = TypesOwed /\ BassTrapAreaIs(FALSE))

\* An analysis with no bass deficit, a mid deficit and a high deficit above
\* 1.5 times the mid deficit: two items, the second the high-frequency one.
C22_Witness ==
    /\ Analyzed
    /\ BassDeficit = FracZero
    /\ FracLt(FracZero, MidDeficit)
    /\ TypesEmitted = <<"broadband_absorber", "high_frequency_absorber">>

(***************************************************************************)
(* Further properties of ReverberationAnalyzer                             *)
(***************************************************************************)
BandsAnalysed == raRet.op = "analyze_by_frequency_bands" /\ raRet.ret.raised = "none"

RequestedBands == {DefaultBandFrequencies[i] : i \in 1 .. Len(DefaultBandFrequencies)}

\* C23: the keys of the map analyze_by_frequency_bands returns are requested
\* band centres; a band is absent iff its band-pass filter design failed
\* (a degenerate passband after clamping), whatever happened to the bands
\* before it; every analysis returned has its frequency equal to its key.
C23_BandAbsentIffDesignFailed ==
    BandsAnalysed =>
        /\ DOMAIN raRet.ret.results \subseteq RequestedBands
        /\ \A f \in RequestedBands :
               f \notin DOMAIN raRet.ret.results <=> ~BandPassDesigned(ra.sample_rate, f)
        /\ \A f \in DOMAIN raRet.ret.results : raRet.ret.results[f].frequency = f

(***************************************************************************)
(* Further properties of SchroederAnalyzer                                 *)
(***************************************************************************)
ZonesReturned == saRet.op = "get_treatment_zones" /\ saRet.raised = "none"

\* The zones get_treatment_zones returns for an analyzer of the given room.
ZonesOf(room, t60) ==
    GetTreatmentZones(SchroederAnalyzerInit(room[1], t60, room[2]))

\* C24: get_treatment_zones returns the five zones 20-80, 80-300, 300-1000,
\* 1000-4000 and 4000-20000 Hz, each ending where the next begins, with the
\* same labels for every volume and T60: the zones of two analyzers are
\* equal, whatever their Schroeder frequencies.
C24_ZonesIndependentOfFc ==
    ZonesReturned =>
        /\ [k \in 1 .. 5 |-> <<saRet.ret.zones[k].low, saRet.ret.zones[k].high>>]
               = <<<<20, 80>>, <<80, 300>>, <<300, 1000>>, <<1000, 4000>>,
                   <<4000, 20000>>>>
        /\ Len(saRet.ret.zones) = 5
        /\ \A room \in RoomVolumes, t60 \in ReverberationTimes :
               ZonesOf(room, t60).raised = "none" =>
                   ZonesOf(room, t60).ret.zones = saRet.ret.zones


(***************************************************************************)
(* Further properties of PorousAbsorberCalculator                          *)
(***************************************************************************)
\* The sweep frequencies whose random-incidence absorption is >= 0.5.
FrequenciesReachingHalf(ret) ==
    {ret.frequencies[i] : i \in {j \in 1..Len(ret.frequencies) :
                                    ReachesHalf(ret.absorption_random[j])}}

\* The lowest frequency of a non-empty set of frequencies.
LowestOf(S) == CHOOSE x \in S : \A y \in S : FracLeq(x, y)

\* C25: in the result of calculate, effective_low_freq is the lowest sweep
\* frequency whose random-incidence absorption is >= 0.5, rounded to 0.1 Hz,
\* and freq_max when no sweep frequency reaches 0.5; total_depth_mm is
\* thickness_mm + air_gap_mm.
C25_EffectiveLowFreqIsLowest ==
    pacRet.op = "calculate" =>
        /\ pacRet.ret.effective_low_freq =
               IF FrequenciesReachingHalf(pacRet.ret) = {}
               THEN Round1(pacRet.freq_max)
               ELSE Round1(LowestOf(FrequenciesReachingHalf(pacRet.ret)))
        /\ pacRet.ret.total_depth_mm = pacRet.thickness_mm + pacRet.air_gap_mm

\* The indices of the sweep whose random-incidence absorption is >= 0.5.
IndicesReachingHalf(ret) ==
    {j \in 1..Len(ret.frequencies) : ReachesHalf(ret.absorption_random[j])}

\* C25, amended: effective_low_freq is the first frequency in sweep order
\* whose random-incidence absorption is >= 0.5, rounded to 0.1 Hz, which is
\* the lowest such frequency when freq_min <= freq_max, and freq_max when no
\* sweep frequency reaches 0.5; total_depth_mm is thickness_mm + air_gap_mm.
C25_EffectiveLowFreqIsFirstInSweep ==
    pacRet.op = "calculate" =>
        /\ pacRet.ret.effective_low_freq =
               IF IndicesReachingHalf(pacRet.ret) = {}
               THEN Round1(pacRet.freq_max)
               ELSE Round1(pacRet.ret.frequencies[
                        CHOOSE i \in IndicesReachingHalf(pacRet.ret) :
                            \A j \in IndicesReachingHalf(pacRet.ret) : i <= j])
        /\ FracLeq(pacRet.freq_min, pacRet.freq_max) => C25_EffectiveLowFreqIsLowest
        /\ pacRet.ret.total_depth_mm = pacRet.thickness_mm + pacRet.air_gap_mm

\* A rising sweep whose first frequency stays below 0.5 and in which two
\* later frequencies reach it; the air gap adds to the depth.
C25_Witness ==
    /\ pacRet.op = "calculate"
    /\ FracLt(pacRet.freq_min, pacRet.freq_max)
    /\ 1 \notin IndicesReachingHalf(pacRet.ret)
    /\ Cardinality(IndicesReachingHalf(pacRet.ret)) >= 2
    /\ pacRet.air_gap_mm > 0
    /\ pacRet.thickness_mm > 0


(***************************************************************************)
(* Properties of MLSGenerator                                              *)
(***************************************************************************)
\* generate_mls has returned for an order of the table.
MlsGenerated ==
    mlsRet.op = "generate_mls" /\ mlsRet.order \in DOMAIN PRIMITIVE_POLYNOMIALS

\* The number of entries of the sequence s equal to bit.
CountOf(s, bit) == Cardinality({i \in 1..Len(s) : s[i] = bit})

\* C26: for every order n of 3..10 and every seed (none, 0, or any integer,
\* reduced to n bits) generate_mls is maximal-length: the register is never
\* zero and takes 2^n - 1 distinct values over the 2^n - 1 iterations, and
\* the sequence returned has 2^(n-1) ones and 2^(n-1) - 1 zeros, the counts
\* get_all_mls_orders reports for n.
C26_MaximalLength ==
    MlsGenerated =>
        /\ mlsRet.raised = "none"
        /\ \A registers \in {RegisterStates(mlsRet.order, mlsRet.seed)} :
              /\ Len(registers) = 2^mlsRet.order - 1
              /\ \A i \in 1..Len(registers) : registers[i] # 0
              /\ Cardinality({registers[i] : i \in 1..Len(registers)})
                     = 2^mlsRet.order - 1
        /\ Len(mlsRet.ret) = 2^mlsRet.order - 1
        /\ CountOf(mlsRet.ret, 1) = 2^(mlsRet.order - 1)
        /\ CountOf(mlsRet.ret, 0) = 2^(mlsRet.order - 1) - 1
        /\ GetAllMlsOrders[mlsRet.order].num_ones = CountOf(mlsRet.ret, 1)
        /\ GetAllMlsOrders[mlsRet.order].num_zeros = CountOf(mlsRet.ret, 0)
        /\ GetAllMlsOrders[mlsRet.order].length = Len(mlsRet.ret)

\* The longest sequence, from a seed whose ten low bits are all zero.
C26_Witness ==
    /\ MlsGenerated
    /\ mlsRet.order = 10
    /\ mlsRet.seed = PyInt(1024)
    /\ Len(mlsRet.ret) = 1023


\* design_panel has returned a GRID_2D design whose grid has as many cells
\* as the sequence has entries.
FullGridDesigned ==
    /\ mlsRet.op = "design_panel"
    /\ mlsRet.raised = "none"
    /\ mlsRet.ret.layout_type = "grid_2d"
    /\ mlsRet.ret.grid_rows > 1
    /\ mlsRet.ret.grid_rows * mlsRet.ret.grid_cols = mlsRet.ret.length

\* The number of cells of the returned grid that hold bit.
CellsHolding(bit) ==
    Cardinality({cell \in (0..(mlsRet.ret.grid_rows - 1)) \X (0..(mlsRet.ret.grid_cols - 1)) :
                    mlsRet.ret.grid[cell[1]][cell[2]] = bit})

\* C29: for a GRID_2D design whose rows * cols equals the sequence length,
\* fold_to_2d writes every index of the sequence to a cell of its own, so
\* the grid has num_slats cells of 1 and num_gaps cells of 0, for every pair
\* of factors _find_grid_factors can choose.
C29_FoldWritesDistinctCells ==
    FullGridDesigned =>
        /\ \A i, j \in 0..(mlsRet.ret.length - 1) :
              (i % mlsRet.ret.grid_rows = j % mlsRet.ret.grid_rows
                  /\ i % mlsRet.ret.grid_cols = j % mlsRet.ret.grid_cols) => i = j
        /\ CellsHolding(1) = mlsRet.ret.num_slats
        /\ CellsHolding(0) = mlsRet.ret.num_gaps


(***************************************************************************)
(* Properties of ProjectManager                                            *)
(***************************************************************************)
\* The projects of a sequence, as a set.
ProjectsOf(projects) == {projects[i] : i \in 1..Len(projects)}

\* C27: after any sequence of create, update and delete calls, a new
\* ProjectManager constructed over the same data file holds exactly the same
\* projects with the same field values; the restart drops no user-created
\* project and does not put the seed project in place of a non-empty store.
C27_RestartKeepsProjects ==
    pmRet.op \in {"create", "update", "delete"} =>
        \A now \in UtcNow :
            /\ ProjectsOf(Construct(disk, now).projects) = ProjectsOf(pm)
            /\ pm # << >> => Construct(disk, now).file = disk


(***************************************************************************)
(* Properties of DecayAnalysis                                             *)
(***************************************************************************)
\* The verdicts of quality_rating that describe a measured room.
MeasuredRoomVerdicts ==
    {"Excellent for studio work", "Slightly dead - may sound dry",
     "Slightly live - acceptable", "Too dead - add diffusion",
     "Too live - add absorption"}

\* C30: for a DecayAnalysis whose t60 is NaN, meets_target returns false for
\* every target range, and quality_rating returns none of the verdicts that
\* describe a measured room.
C30_UndefinedT60StaysUndefined ==
    (raRet.op \in {"meets_target", "quality_rating"} /\ raRet.t60 = NaN) =>
        /\ raRet.op = "meets_target" => raRet.ret = FALSE
        /\ raRet.op = "quality_rating" => raRet.ret \notin MeasuredRoomVerdicts


(***************************************************************************)
(* Properties of the surfaces of AbsorptionCalculator                      *)
(***************************************************************************)
RECURSIVE SumOfAreas(_)
SumOfAreas(surfaces) ==
    IF surfaces = << >> THEN 0 ELSE Head(surfaces).area + SumOfAreas(Tail(surfaces))

\* Six surfaces whose areas sum to surface_area; every band's average
\* coefficient is a number of [0, 1], and its total absorption the sum over
\* the surfaces of area times coefficient.
SurfacesSound(c) ==
    /\ Len(c.surfaces) = 6
    /\ SumOfAreas(c.surfaces) = AbcSurfaceArea(c)
    /\ \A f \in FreqSet :
          /\ CalculateAverageAlpha(c, f).raised = "none"
          /\ FracLeq(FracZero, CalculateAverageAlpha(c, f).value)
          /\ FracLeq(CalculateAverageAlpha(c, f).value, Frac(1, 1))
          /\ CalculateTotalAbsorption(c, f)
                 = SumOfAreas([i \in 1..Len(c.surfaces) |->
                                  [area |-> GetAbsorption(c.surfaces[i], f)]])

\* The surfaces of c whose name matches surface_name without regard to case.
Matching(c, surface_name) ==
    {i \in 1..Len(c.surfaces) : Lower(c.surfaces[i].name) = Lower(surface_name)}

\* C28: after construction and after any set_surface_material calls the
\* calculator has six surfaces whose areas sum to surface_area, the average
\* coefficient of every band lies in [0, 1] and the total absorption is the
\* sum of area times coefficient; a set_surface_material call changes only
\* the material of the surface whose name matches case-insensitively, and a
\* call naming an unknown surface raises ValueError and changes nothing.
C28_SurfacesFrame ==
    [][/\ SurfacesSound(abc)
       /\ SurfacesSound(abc')
       /\ abcRet'.op = "set_surface_material" =>
             IF Matching(abc, abcRet'.surface_name) = {}
             THEN abcRet'.raised = "ValueError" /\ abc' = abc
             ELSE /\ abcRet'.raised = "none"
                  /\ abc' = [abc EXCEPT !.surfaces =
                                [i \in 1..Len(abc.surfaces) |->
                                    IF i \in Matching(abc, abcRet'.surface_name)
                                    THEN [abc.surfaces[i] EXCEPT
                                             !.surface_type = abcRet'.surface_type]
                                    ELSE abc.surfaces[i]]]]_vars

=============================================================================
